---- MODULE Spec2Model ----
(***************************************************************************)
(* Model of the streaming chat client of the miniapp:                      *)
(*   sendMessage (src/lib/cloud-api.ts) reads a server-sent-event stream   *)
(*   chunk by chunk, reassembles records in a text buffer and dispatches   *)
(*   one callback per record.                                              *)
(*                                                                         *)
(* Text is modelled as a sequence of atoms.  An atom is a run of           *)
(* characters that the model never cuts ("event: ", a JSON fragment, one   *)
(* newline, one space) or a single byte of a two-byte UTF-8 character.     *)
(* Chunk boundaries fall between atoms, which includes boundaries inside   *)
(* a line, inside a JSON payload, between the two newlines of a record     *)
(* separator and between the two bytes of a multi-byte character.          *)
(***************************************************************************)
EXTENDS Integers, Sequences, FiniteSets, TLC

(* ----------------------------- bounds ---------------------------------- *)
\* maximal number of records in one response stream
MaxRecords == 2

(* ----------------------------- atoms ----------------------------------- *)
NL == "\n"
SP == " "
EVENT_PREFIX == "event: "
DATA_PREFIX == "data: "
\* the two bytes of one two-byte UTF-8 character, and the decoded character
LEAD == "0xC3"
CONT == "0xA9"
EACUTE == "e-acute"
\* U+FFFD, what TextDecoder emits for a malformed byte sequence
REPLACEMENT == "U+FFFD"
\* JavaScript undefined (a missing property)
U == "<undefined>"
\* the value of new Date().toISOString() / Date.now() at dispatch time
NOW == "<now>"

\* a value that is null
NULL == "<null>"

(* ------------------------- generic text helpers ------------------------ *)
IsWhite(a) == a \in {SP, NL}

RECURSIVE TrimLeft(_)
TrimLeft(s) ==
  IF s # <<>> /\ IsWhite(Head(s)) THEN TrimLeft(Tail(s)) ELSE s

RECURSIVE TrimRight(_)
TrimRight(s) ==
  IF s # <<>> /\ IsWhite(s[Len(s)]) THEN TrimRight(SubSeq(s, 1, Len(s) - 1)) ELSE s

\* String.prototype.trim
Trim(s) == TrimRight(TrimLeft(s))

\* String.prototype.startsWith for a one-atom prefix
StartsWith(s, p) == s # <<>> /\ Head(s) = p

\* index of the first "\n\n" in s at or after position i, 0 when there is none
RECURSIVE FindSep(_, _)
FindSep(s, i) ==
  IF i + 1 > Len(s) THEN 0
  ELSE IF s[i] = NL /\ s[i + 1] = NL THEN i
  ELSE FindSep(s, i + 1)

\* String.prototype.split("\n\n"): left to right, non-overlapping
RECURSIVE SplitRecords(_)
SplitRecords(s) ==
  LET i == FindSep(s, 1) IN
  IF i = 0 THEN <<s>>
  ELSE <<SubSeq(s, 1, i - 1)>> \o SplitRecords(SubSeq(s, i + 2, Len(s)))

RECURSIVE FindNL(_, _)
FindNL(s, i) ==
  IF i > Len(s) THEN 0
  ELSE IF s[i] = NL THEN i
  ELSE FindNL(s, i + 1)

\* String.prototype.split("\n")
RECURSIVE SplitLines(_)
SplitLines(s) ==
  LET i == FindNL(s, 1) IN
  IF i = 0 THEN <<s>>
  ELSE <<SubSeq(s, 1, i - 1)>> \o SplitLines(SubSeq(s, i + 1, Len(s)))

(* ------------------------------ TextDecoder ---------------------------- *)
\* TextDecoder.decode(value, {stream: true}) applied to the bytes bs, which
\* are the bytes held back by the previous call followed by the new chunk:
\* out is the decoded text, pend the incomplete byte sequence held back.
RECURSIVE DecodeBytes(_)
DecodeBytes(bs) ==
  IF bs = <<>> THEN [out |-> <<>>, pend |-> <<>>]
  ELSE IF Head(bs) = LEAD THEN
    IF Len(bs) = 1 THEN [out |-> <<>>, pend |-> <<LEAD>>]
    ELSE IF bs[2] = CONT THEN
      LET r == DecodeBytes(SubSeq(bs, 3, Len(bs))) IN
      [out |-> <<EACUTE>> \o r.out, pend |-> r.pend]
    ELSE
      LET r == DecodeBytes(Tail(bs)) IN
      [out |-> <<REPLACEMENT>> \o r.out, pend |-> r.pend]
  ELSE IF Head(bs) = CONT THEN
    LET r == DecodeBytes(Tail(bs)) IN
    [out |-> <<REPLACEMENT>> \o r.out, pend |-> r.pend]
  ELSE
    LET r == DecodeBytes(Tail(bs)) IN
    [out |-> <<Head(bs)>> \o r.out, pend |-> r.pend]

(* ------------------------------ JSON values ---------------------------- *)
\* An entry of content.attachments: JSON null or an object.
NullAtt == [k |-> "null", url |-> U, urlIsString |-> FALSE, id |-> U,
            title |-> U, contentType |-> U]

\* A parsed payload.  k is "null" for JSON null, "prim" for a number, string
\* or boolean (every property read gives undefined) and "obj" for an object.
\* hasContent tells whether data.content is an object; attKind is "absent",
\* "array" or "other" for data.content.attachments.
EmptyObj == [k |-> "obj", type |-> U, isAgent |-> FALSE, id |-> U,
             hasContent |-> FALSE, text |-> U, attKind |-> "absent",
             atts |-> <<>>, createdAt |-> U, message |-> U, error |-> U]
NullValue == [EmptyObj EXCEPT !.k = "null"]

(* payload texts, as atom sequences *)
P_empty == <<"{}">>
P_null == <<"null">>
P_bad == <<"{oops">>
P_system == <<"{\"type\":\"system\"}">>
P_errMessage == <<"{\"message\":\"insufficient credits\"}">>
P_typeError == <<"{\"type\":\"error\",\"error\":\"Generation failed\"}">>
P_attNull == <<"{\"type\":\"user\",\"id\":\"u2\",\"content\":{\"attachments\":[null]}}">>
\* {"isAgent":true,"id":"m3","content":{"text":"<one two-byte character>"}}
P_utfHead == "{\"isAgent\":true,\"id\":\"m3\",\"content\":{\"text\":\""
P_utfTail == "\"}}"

(* payloads of the message lifecycle *)
P_thinking == <<"{\"type\":\"thinking\"}">>
P_agentM1 == <<"{\"isAgent\":true,\"id\":\"m1\",\"content\":{\"text\":\"Hello!\"},\"createdAt\":\"2024-01-01T00:00:00Z\"}">>
P_user == <<"{\"type\":\"user\",\"id\":\"u1\",\"content\":{\"text\":\"hi\"}}">>
P_userAgent == <<"{\"type\":\"user\",\"isAgent\":true,\"id\":\"u3\"}">>
P_thinkingAgent == <<"{\"type\":\"thinking\",\"isAgent\":true,\"id\":\"m4\"}">>
P_agentType == <<"{\"type\":\"agent\",\"id\":\"m2\"}">>
P_chunk == <<"{\"type\":\"chunk\",\"content\":{\"text\":\"Hel\"}}">>

(* message payloads whose createdAt is empty, not a date, or null *)
P_userEmptyDate == <<"{\"type\":\"user\",\"id\":\"u7\",\"createdAt\":\"\"}">>
P_agentBadDate == <<"{\"isAgent\":true,\"id\":\"m8\",\"createdAt\":\"not-a-date\"}">>
P_userNullDate == <<"{\"type\":\"user\",\"id\":\"u8\",\"createdAt\":null}">>

(* payloads of error events *)
P_errBoth == <<"{\"message\":\"rate limited\",\"error\":\"E429\"}">>
P_errEmptyMessage == <<"{\"message\":\"\",\"error\":\"E500\"}">>
P_errOnlyError == <<"{\"error\":\"boom\"}">>
P_errNeither == <<"{\"code\":7}">>

(* payloads with content.attachments *)
P_attUrlOnly == <<"{\"type\":\"user\",\"id\":\"u4\",\"content\":{\"attachments\":[{\"url\":\"https://x/a.png\"}]}}">>
P_attMixed == <<"{\"isAgent\":true,\"id\":\"m5\",\"content\":{\"attachments\":[{\"id\":\"a1\",\"url\":\"https://x/b.mp4\",\"title\":\"clip\",\"contentType\":\"video\"},{\"id\":\"a2\",\"url\":\"\"},{\"id\":\"a3\",\"url\":5},{\"url\":\"https://x/c.png\"}]}}">>
P_attEmpty == <<"{\"type\":\"user\",\"id\":\"u5\",\"content\":{\"attachments\":[]}}">>
P_attNotArray == <<"{\"type\":\"agent\",\"id\":\"m6\",\"content\":{\"attachments\":\"none\"}}">>
P_attNoUrl == <<"{\"type\":\"user\",\"id\":\"u6\",\"content\":{\"attachments\":[{\"id\":\"a4\",\"title\":\"t\"}]}}">>
P_attTwoNoId == <<"{\"isAgent\":true,\"id\":\"m7\",\"content\":{\"attachments\":[{\"url\":\"https://x/d.png\"},{\"url\":\"https://x/e.png\"}]}}">>

\* an attachment entry that is an object
Att(id, url, urlIsString, title, contentType) ==
  [k |-> "obj", url |-> url, urlIsString |-> urlIsString, id |-> id,
   title |-> title, contentType |-> contentType]

\* the payload texts that are valid JSON, with the value JSON.parse gives
JsonTable ==
  { <<P_thinking, [EmptyObj EXCEPT !.type = "thinking"]>>,
    <<P_agentM1, [EmptyObj EXCEPT !.isAgent = TRUE, !.id = "m1",
                                  !.hasContent = TRUE, !.text = "Hello!",
                                  !.createdAt = "2024-01-01T00:00:00Z"]>>,
    <<P_user, [EmptyObj EXCEPT !.type = "user", !.id = "u1",
                               !.hasContent = TRUE, !.text = "hi"]>>,
    <<P_userAgent, [EmptyObj EXCEPT !.type = "user", !.isAgent = TRUE, !.id = "u3"]>>,
    <<P_thinkingAgent, [EmptyObj EXCEPT !.type = "thinking", !.isAgent = TRUE,
                                        !.id = "m4"]>>,
    <<P_agentType, [EmptyObj EXCEPT !.type = "agent", !.id = "m2"]>>,
    <<P_chunk, [EmptyObj EXCEPT !.type = "chunk", !.hasContent = TRUE, !.text = "Hel"]>>,
    <<P_errBoth, [EmptyObj EXCEPT !.message = "rate limited", !.error = "E429"]>>,
    <<P_errEmptyMessage, [EmptyObj EXCEPT !.message = "", !.error = "E500"]>>,
    <<P_errOnlyError, [EmptyObj EXCEPT !.error = "boom"]>>,
    <<P_errNeither, EmptyObj>>,
    <<P_attUrlOnly, [EmptyObj EXCEPT !.type = "user", !.id = "u4",
                       !.hasContent = TRUE, !.attKind = "array",
                       !.atts = <<Att(U, "https://x/a.png", TRUE, U, U)>>]>>,
    <<P_attMixed, [EmptyObj EXCEPT !.isAgent = TRUE, !.id = "m5",
                     !.hasContent = TRUE, !.attKind = "array",
                     !.atts = <<Att("a1", "https://x/b.mp4", TRUE, "clip", "video"),
                                Att("a2", "", TRUE, U, U),
                                Att("a3", "5", FALSE, U, U),
                                Att(U, "https://x/c.png", TRUE, U, U)>>]>>,
    <<P_attEmpty, [EmptyObj EXCEPT !.type = "user", !.id = "u5",
                     !.hasContent = TRUE, !.attKind = "array"]>>,
    <<P_attNotArray, [EmptyObj EXCEPT !.type = "agent", !.id = "m6",
                        !.hasContent = TRUE, !.attKind = "other"]>>,
    <<P_attNoUrl, [EmptyObj EXCEPT !.type = "user", !.id = "u6",
                     !.hasContent = TRUE, !.attKind = "array",
                     !.atts = <<Att("a4", U, FALSE, "t", U)>>]>>,
    <<P_attTwoNoId, [EmptyObj EXCEPT !.isAgent = TRUE, !.id = "m7",
                       !.hasContent = TRUE, !.attKind = "array",
                       !.atts = <<Att(U, "https://x/d.png", TRUE, U, U),
                                  Att(U, "https://x/e.png", TRUE, U, U)>>]>>,
    <<P_userEmptyDate, [EmptyObj EXCEPT !.type = "user", !.id = "u7", !.createdAt = ""]>>,
    <<P_agentBadDate, [EmptyObj EXCEPT !.isAgent = TRUE, !.id = "m8",
                                       !.createdAt = "not-a-date"]>>,
    <<P_userNullDate, [EmptyObj EXCEPT !.type = "user", !.id = "u8", !.createdAt = NULL]>>,
    <<P_empty, EmptyObj>>,
    <<P_null, NullValue>>,
    <<P_system, [EmptyObj EXCEPT !.type = "system"]>>,
    <<P_errMessage, [EmptyObj EXCEPT !.message = "insufficient credits"]>>,
    <<P_typeError, [EmptyObj EXCEPT !.type = "error", !.error = "Generation failed"]>>,
    <<P_attNull, [EmptyObj EXCEPT !.type = "user", !.id = "u2",
                                  !.hasContent = TRUE, !.attKind = "array",
                                  !.atts = <<NullAtt>>]>> }

\* a JSON string body made of decoded characters only
IsUtfBody(t) ==
  /\ Len(t) >= 3
  /\ t[1] = P_utfHead
  /\ t[Len(t)] = P_utfTail
  /\ \A i \in 2..(Len(t) - 1) : t[i] \in {EACUTE, REPLACEMENT}

\* JSON.parse(text): ok is FALSE when it throws a SyntaxError.  Leading and
\* trailing JSON whitespace is allowed.
JsonParse(text) ==
  LET t == Trim(text) IN
  IF \E e \in JsonTable : e[1] = t
  THEN [ok |-> TRUE, v |-> (CHOOSE e \in JsonTable : e[1] = t)[2]]
  ELSE IF IsUtfBody(t)
  THEN [ok |-> TRUE,
        v |-> [EmptyObj EXCEPT !.isAgent = TRUE, !.id = "m3",
                               !.hasContent = TRUE,
                               !.text = IF SubSeq(t, 2, Len(t) - 1) = <<EACUTE>>
                                        THEN EACUTE ELSE REPLACEMENT]]
  ELSE [ok |-> FALSE, v |-> NullValue]

(* --------------------------- record dispatch --------------------------- *)
\* a timestamp passed through as the server wrote it
rawTimestamp(value) ==
  IF value = U \/ value = "" THEN NOW ELSE value

\* a conversion without the isNaN test: what cannot be parsed is rendered
\* as the text of an invalid Date
safeToISOStringUnchecked(value) ==
  IF value \in {U, NULL, ""} THEN NOW
  ELSE IF value = "2024-01-01T00:00:00Z" THEN "2024-01-01T00:00:00.000Z"
  ELSE "Invalid Date"

\* safeToISOString: a falsy or unparseable value gives the current time,
\* a parseable one is normalised by Date.prototype.toISOString.
safeToISOString(value) ==
  IF value \in {U, NULL, ""} THEN NOW
  ELSE IF value = "2024-01-01T00:00:00Z" THEN "2024-01-01T00:00:00.000Z"
  ELSE NOW

\* callback arguments
NoMsg == [id |-> U, content |-> U, role |-> U, createdAt |-> U, attachments |-> <<>>]
NoUsage == [tokens |-> -1, cost |-> -1]
ZeroUsage == [tokens |-> 0, cost |-> 0]
Call(cb, msg, str, usage) == [cb |-> cb, msg |-> msg, str |-> str, usage |-> usage]

\* the outcome of handling one record: it threw, or it made these calls
Threw(e) == [threw |-> TRUE, err |-> e, calls |-> <<>>]
Calls(cs) == [threw |-> FALSE, err |-> U, calls |-> cs]

\* an extraction that keeps every entry with a truthy url, string or not
RECURSIVE ExtractAttachmentsAnyUrl(_)
ExtractAttachmentsAnyUrl(atts) ==
  IF atts = <<>> THEN [threw |-> FALSE, items |-> <<>>]
  ELSE
    LET att == Head(atts) IN
    IF att.k = "null" THEN [threw |-> TRUE, items |-> <<>>]
    ELSE
      LET r == ExtractAttachmentsAnyUrl(Tail(atts))
          keep == att.url # U /\ att.url # ""
          item == [id |-> IF att.id # U /\ att.id # "" THEN att.id ELSE "att-" \o NOW,
                   url |-> att.url,
                   title |-> att.title,
                   contentType |-> IF att.contentType # U /\ att.contentType # ""
                                   THEN att.contentType ELSE "image"]
      IN [threw |-> r.threw,
          items |-> IF keep THEN <<item>> \o r.items ELSE r.items]

\* the for-loop over data.content.attachments: throws a TypeError on a null
\* entry (att.url), keeps the entries with a non-empty string url
RECURSIVE ExtractAttachments(_)
ExtractAttachments(atts) ==
  IF atts = <<>> THEN [threw |-> FALSE, items |-> <<>>]
  ELSE
    LET att == Head(atts) IN
    IF att.k = "null" THEN [threw |-> TRUE, items |-> <<>>]
    ELSE
      LET r == ExtractAttachments(Tail(atts))
          keep == att.url # U /\ att.url # "" /\ att.urlIsString
          item == [id |-> IF att.id # U /\ att.id # "" THEN att.id ELSE "att-" \o NOW,
                   url |-> att.url,
                   title |-> att.title,
                   contentType |-> IF att.contentType # U /\ att.contentType # ""
                                   THEN att.contentType ELSE "image"]
      IN [threw |-> r.threw,
          items |-> IF keep THEN <<item>> \o r.items ELSE r.items]

\* the attachments of a message payload
MessageAttachments(data) ==
  IF data.hasContent /\ data.attKind = "array"
  THEN ExtractAttachments(data.atts)
  ELSE [threw |-> FALSE, items |-> <<>>]

\* the Message object built for a user or agent payload
BuildMessage(data, role, items) ==
  [id |-> data.id,
   content |-> IF data.hasContent /\ data.text # U THEN data.text ELSE "",
   role |-> role,
   createdAt |-> safeToISOString(data.createdAt),
   attachments |-> items]

\* a message branch that looks at isAgent before the type
OnMessageEventAgentFirst(data) ==
  IF data.k = "null" THEN Threw("TypeError")
  ELSE IF data.isAgent \/ data.type = "agent" THEN
    LET a == MessageAttachments(data) IN
    IF a.threw THEN Threw("TypeError")
    ELSE Calls(<<Call("onComplete", BuildMessage(data, "assistant", a.items), U, ZeroUsage)>>)
  ELSE IF data.type = "user" THEN
    LET a == MessageAttachments(data) IN
    IF a.threw THEN Threw("TypeError")
    ELSE Calls(<<Call("onUserMessage", BuildMessage(data, "user", a.items), U, NoUsage)>>)
  ELSE IF data.type = "thinking" THEN Calls(<<Call("onThinking", NoMsg, U, NoUsage)>>)
  ELSE Calls(<<>>)

\* the branch for eventType "message"
OnMessageEvent(data) ==
  IF data.k = "null" THEN Threw("TypeError")
  ELSE IF data.type = "user" THEN
    LET a == MessageAttachments(data) IN
    IF a.threw THEN Threw("TypeError")
    ELSE Calls(<<Call("onUserMessage", BuildMessage(data, "user", a.items), U, NoUsage)>>)
  ELSE IF data.type = "thinking" THEN Calls(<<Call("onThinking", NoMsg, U, NoUsage)>>)
  ELSE IF data.isAgent \/ data.type = "agent" THEN
    LET a == MessageAttachments(data) IN
    IF a.threw THEN Threw("TypeError")
    ELSE Calls(<<Call("onComplete", BuildMessage(data, "assistant", a.items), U, ZeroUsage)>>)
  ELSE Calls(<<>>)

\* an error branch that falls back only when a field is missing:
\* data.message ?? data.error ?? "Unknown error"
OnErrorEventNullish(data) ==
  IF data.k = "null" THEN Threw("TypeError")
  ELSE Calls(<<Call("onError",
                    NoMsg,
                    IF data.message # U THEN data.message
                    ELSE IF data.error # U THEN data.error
                    ELSE "Unknown error",
                    NoUsage)>>)

\* an error event that ends the read loop
OnErrorEventFatal(data) == Threw("Error")

\* the branch for eventType "error":
\* callbacks.onError?.(data.message || data.error || "Unknown error")
OnErrorEvent(data) ==
  IF data.k = "null" THEN Threw("TypeError")
  ELSE Calls(<<Call("onError",
                    NoMsg,
                    IF data.message # U /\ data.message # "" THEN data.message
                    ELSE IF data.error # U /\ data.error # "" THEN data.error
                    ELSE "Unknown error",
                    NoUsage)>>)

\* a chain with a branch that streams the text of a chunk event to onChunk
DispatchWithChunk(eventType, data) ==
  IF eventType = <<"connected">> THEN Calls(<<Call("onStart", NoMsg, U, NoUsage)>>)
  ELSE IF eventType = <<"message">> THEN OnMessageEvent(data)
  ELSE IF eventType = <<"chunk">> THEN Calls(<<Call("onChunk", NoMsg, data.text, NoUsage)>>)
  ELSE IF eventType = <<"error">> THEN OnErrorEvent(data)
  ELSE Calls(<<>>)

\* a chain in which the done event ends the run
DispatchDoneEnds(eventType, data) ==
  IF eventType = <<"connected">> THEN Calls(<<Call("onStart", NoMsg, U, NoUsage)>>)
  ELSE IF eventType = <<"message">> THEN OnMessageEvent(data)
  ELSE IF eventType = <<"error">> THEN OnErrorEvent(data)
  ELSE IF eventType = <<"done">> THEN Threw("Error")
  ELSE Calls(<<>>)

\* the if/else chain over eventType
Dispatch(eventType, data) ==
  IF eventType = <<"connected">> THEN Calls(<<Call("onStart", NoMsg, U, NoUsage)>>)
  ELSE IF eventType = <<"message">> THEN OnMessageEvent(data)
  ELSE IF eventType = <<"error">> THEN OnErrorEvent(data)
  ELSE Calls(<<>>)

\* a scan that keeps the first "event: " line and the first "data: " line
RECURSIVE ScanLinesFirstWins(_, _, _)
ScanLinesFirstWins(lines, eventType, eventData) ==
  IF lines = <<>> THEN [eventType |-> eventType, eventData |-> eventData]
  ELSE
    LET line == Head(lines) IN
    IF StartsWith(line, EVENT_PREFIX) /\ eventType = <<>>
    THEN ScanLinesFirstWins(Tail(lines), Trim(Tail(line)), eventData)
    ELSE IF StartsWith(line, DATA_PREFIX) /\ eventData = <<>>
    THEN ScanLinesFirstWins(Tail(lines), eventType, Tail(line))
    ELSE ScanLinesFirstWins(Tail(lines), eventType, eventData)

\* the scan over the lines of a record: the last "event: " line and the last
\* "data: " line win
RECURSIVE ScanLines(_, _, _)
ScanLines(lines, eventType, eventData) ==
  IF lines = <<>> THEN [eventType |-> eventType, eventData |-> eventData]
  ELSE
    LET line == Head(lines) IN
    IF StartsWith(line, EVENT_PREFIX)
    THEN ScanLines(Tail(lines), Trim(Tail(line)), eventData)
    ELSE IF StartsWith(line, DATA_PREFIX)
    THEN ScanLines(Tail(lines), eventType, Tail(line))
    ELSE ScanLines(Tail(lines), eventType, eventData)

\* a loop body that parses the payload without looking whether there is one
HandleRecordUnchecked(message) ==
  IF Trim(message) = <<>> THEN Calls(<<>>)
  ELSE
    LET f == ScanLines(SplitLines(message), <<>>, <<>>)
        p == JsonParse(f.eventData)
    IN IF ~p.ok THEN Threw("SyntaxError") ELSE Dispatch(f.eventType, p.v)

\* the body of `for (const message of messages)` for one message
HandleRecord(message) ==
  IF Trim(message) = <<>> THEN Calls(<<>>)
  ELSE
    LET f == ScanLines(SplitLines(message), <<>>, <<>>) IN
    IF f.eventData = <<>> THEN Calls(<<>>)
    ELSE
      LET p == JsonParse(f.eventData) IN
      IF ~p.ok THEN Threw("SyntaxError")
      ELSE Dispatch(f.eventType, p.v)

\* `for (const message of messages)`: handles the records in order and stops
\* at the first one that throws.  n counts the records entered; src gives,
\* for each call, the position in messages of the record that made it.
RECURSIVE HandleRecords(_)
HandleRecords(messages) ==
  IF messages = <<>>
  THEN [threw |-> FALSE, err |-> U, calls |-> <<>>, src |-> <<>>, n |-> 0]
  ELSE
    LET h == HandleRecord(Head(messages)) IN
    IF h.threw
    THEN [threw |-> TRUE, err |-> h.err, calls |-> <<>>, src |-> <<>>, n |-> 1]
    ELSE
      LET r == HandleRecords(Tail(messages)) IN
      [threw |-> r.threw, err |-> r.err,
       calls |-> h.calls \o r.calls,
       src |-> [i \in 1..Len(h.calls) |-> 1] \o [i \in 1..Len(r.src) |-> r.src[i] + 1],
       n |-> r.n + 1]

(* ------------------------------- inputs -------------------------------- *)
\* one SSE record, without its terminating blank line
Rec(ev, payload) == <<EVENT_PREFIX, ev, NL, DATA_PREFIX>> \o payload

\* the bytes of the payload with a two-byte character in its text
P_utfBytes == <<P_utfHead, LEAD, CONT, P_utfTail>>

\* the records a response stream is made of
Records ==
  { Rec("connected", P_empty),
    Rec("message", P_utfBytes),
    Rec("message", P_system),
    Rec("message", P_null),
    Rec("message", P_attNull),
    Rec("error", P_errMessage),
    Rec("error", P_null),
    Rec("foo", P_empty),
    Rec("connected", P_bad),
    <<EVENT_PREFIX, "connected", SP, NL, DATA_PREFIX, SP>> \o P_empty \o <<NL>>,
    <<>> }

\* a last record that the server did not terminate with a blank line
Trailers ==
  { Rec("error", P_errMessage),
    <<DATA_PREFIX>> \o P_typeError }

\* the concatenations of up to n terminated records
RECURSIVE StreamsOf(_)
StreamsOf(n) ==
  IF n = 0 THEN { <<>> }
  ELSE LET S == StreamsOf(n - 1) IN
       S \cup { s \o r \o <<NL, NL>> : s \in S, r \in Records }

\* the response bodies: up to MaxRecords records, the last one possibly
\* not terminated
Streams ==
  StreamsOf(MaxRecords) \cup { s \o t : s \in StreamsOf(MaxRecords - 1), t \in Trailers }

\* the status codes of a response that is not ok
Statuses == {402, 500}
\* the body of a response that is not ok: a JSON object with a non-empty
\* error string, with an empty one or with none, a body that is not JSON,
\* and the JSON value null
ErrorBodies == {"errorString", "errorEmpty", "noError", "notJson", "jsonNull"}

(* ------------------------------- state --------------------------------- *)
VARIABLES
  pc,       \* "start", "reading", "resolved" or "rejected"
  resp,     \* the status and the kind of body of the response
  stream,   \* the bytes of the response body
  pos,      \* how many of them reader.read() has delivered
  pending,  \* the bytes held back by the TextDecoder
  buffer,   \* let buffer
  log,      \* the callbacks invoked so far, in order
  error,    \* the message of the error sendMessage rejected with
  cause,    \* history: why it rejected
  disp,     \* history: for each call, the ordinal of the record that made it
  nrec,     \* history: the number of records the for-loop has entered
  multi,    \* history: the body arrived in more than one chunk
  page,     \* the state of the chat page (its useState values)
  sent,     \* the handleSend call: where it is, its userMessage, and history
  proxy,    \* a request to the proxy route and what forwardRequest made of it
  callback, \* the auth callback page and its polling of the session endpoint
  auth      \* the useAuth hook: localStorage, its state, its requests in flight

\* the variables of sendMessage and of the chat page
chatVars == <<pc, resp, stream, pos, pending, buffer, log, error, cause, disp, nrec, multi,
              page, sent>>

vars == <<chatVars, proxy, callback, auth>>

\* the value of the variable of a component that is not part of a run
UNUSED == "<unused>"

\* the chat page after fetchData, with the messages of the chat
PageWith(history) ==
  [messages |-> history,
   sending |-> FALSE,
   error |-> NULL,
   input |-> "",
   selectedImage |-> NULL,
   isThinking |-> FALSE,
   streamingContent |-> "",
   showLowCredits |-> FALSE,
   creditBalance |-> NULL,
   rendered |-> [sending |-> FALSE, input |-> "", selectedImage |-> NULL]]

\* the component function runs again: the handlers and the disabled
\* attributes of the new render read the current input, selectedImage and
\* sending
Rendered(p) ==
  [p EXCEPT !.rendered = [sending |-> p.sending, input |-> p.input,
                          selectedImage |-> p.selectedImage]]

\* no handleSend call has been made; at is "idle", then "awaiting" during
\* the await, then "returned" or "threw".  prev is history: the list of
\* messages that the call found
NoSend == [at |-> "idle", userMessage |-> NoMsg, prev |-> <<>>, n |-> 0]

NoResp == [status |-> 0, body |-> "none"]

\* the callbacks that handleSend passes to sendMessage, as functions of the
\* page state p (the refresh of the chat list in onComplete is left out: it
\* touches only the sidebar)
onStart(p) == [p EXCEPT !.isThinking = TRUE]

\* a reconciliation that finds the optimistic entry by its text
onUserMessageByContent(p, userMessage, msg) ==
  [p EXCEPT !.messages =
     [i \in DOMAIN p.messages |->
        LET m == p.messages[i] IN
        IF m.content = userMessage.content
        THEN [msg EXCEPT !.attachments =
                IF msg.attachments # <<>> THEN msg.attachments ELSE m.attachments]
        ELSE m]]

\* prev.map((m) => (m.id === userMessage.id
\*   ? { ...msg, attachments: msg.attachments || m.attachments } : m))
onUserMessage(p, userMessage, msg) ==
  [p EXCEPT !.messages =
     [i \in DOMAIN p.messages |->
        LET m == p.messages[i] IN
        IF m.id = userMessage.id
        THEN [msg EXCEPT !.attachments =
                IF msg.attachments # <<>> THEN msg.attachments ELSE m.attachments]
        ELSE m]]

onThinking(p) == [p EXCEPT !.isThinking = TRUE, !.streamingContent = ""]

onChunk(p, chunk) ==
  [p EXCEPT !.isThinking = FALSE, !.streamingContent = p.streamingContent \o chunk]

onComplete(p, msg) ==
  [p EXCEPT !.isThinking = FALSE,
            !.streamingContent = "",
            !.messages = Append(p.messages, msg)]

\* err.toLowerCase() includes "credit", "insufficient" or "balance"
IsCreditError(err) == err \in {"insufficient credits", "Insufficient credits"}

onError(p, err) ==
  LET q == [p EXCEPT !.error = err, !.isThinking = FALSE, !.streamingContent = ""] IN
  IF IsCreditError(err)
  THEN [q EXCEPT !.showLowCredits = TRUE, !.creditBalance = 0]
  ELSE q

\* the page after the callbacks that sendMessage invoked, in order
RECURSIVE Deliver(_, _, _)
Deliver(p, userMessage, calls) ==
  IF calls = <<>> THEN p
  ELSE
    LET c == Head(calls)
        q == IF c.cb = "onStart" THEN onStart(p)
             ELSE IF c.cb = "onUserMessage" THEN onUserMessage(p, userMessage, c.msg)
             ELSE IF c.cb = "onThinking" THEN onThinking(p)
             ELSE IF c.cb = "onChunk" THEN onChunk(p, c.str)
             ELSE IF c.cb = "onComplete" THEN onComplete(p, c.msg)
             ELSE onError(p, c.str)
    IN Deliver(q, userMessage, Tail(calls))

Init ==
  /\ pc = "start"
  /\ resp = NoResp
  /\ stream = <<>>
  /\ pos = 0
  /\ pending = <<>>
  /\ buffer = <<>>
  /\ log = <<>>
  /\ error = U
  /\ cause = "none"
  /\ disp = <<>>
  /\ nrec = 0
  /\ multi = FALSE
  /\ page = PageWith(<<>>)
  /\ sent = NoSend
  /\ proxy = UNUSED
  /\ callback = UNUSED
  /\ auth = UNUSED

Reject(msg, why) ==
  /\ pc' = "rejected"
  /\ error' = msg
  /\ cause' = why

\* await fetch(...) rejects: sendMessage rejects with that error
FetchFails ==
  /\ pc = "start"
  /\ Reject("Failed to fetch", "fetch")
  /\ UNCHANGED <<resp, stream, pos, pending, buffer, log, disp, nrec, multi, page, sent>>
  /\ UNCHANGED <<proxy, callback, auth>>

\* a body that is not JSON treated like a body without an error field
ErrorJsonNoFallback(body) ==
  IF body = "jsonNull" THEN [k |-> "null", error |-> U]
  ELSE IF body = "errorString" THEN [k |-> "obj", error |-> "Insufficient credits"]
  ELSE IF body = "errorEmpty" THEN [k |-> "obj", error |-> ""]
  ELSE [k |-> "obj", error |-> U]

\* await response.json().catch(() => ({ error: "Unknown error" }))
ErrorJson(body) ==
  IF body = "notJson" THEN [k |-> "obj", error |-> "Unknown error"]
  ELSE IF body = "jsonNull" THEN [k |-> "null", error |-> U]
  ELSE IF body = "errorString" THEN [k |-> "obj", error |-> "Insufficient credits"]
  ELSE IF body = "errorEmpty" THEN [k |-> "obj", error |-> ""]
  ELSE [k |-> "obj", error |-> U]

\* the message of the error thrown for a response that is not ok:
\* error.error || `API error: ${response.status}`
NotOkMessage(status, body) ==
  LET e == ErrorJson(body) IN
  IF e.k = "null" THEN "TypeError"
  ELSE IF e.error # U /\ e.error # "" THEN e.error
  ELSE "API error: " \o ToString(status)

\* a response that is not ok reported through onError as well
ResponseNotOkViaOnError ==
  /\ pc = "start"
  /\ \E status \in Statuses, body \in ErrorBodies :
       /\ resp' = [status |-> status, body |-> body]
       /\ Reject(NotOkMessage(status, body), "http")
       /\ log' = <<Call("onError", NoMsg, NotOkMessage(status, body), NoUsage)>>
       /\ disp' = <<0>>
  /\ UNCHANGED <<stream, pos, pending, buffer, nrec, multi, page, sent>>
  /\ UNCHANGED <<proxy, callback, auth>>

\* if (!response.ok) throw new Error(...)
ResponseNotOk ==
  /\ pc = "start"
  /\ \E status \in Statuses, body \in ErrorBodies :
       /\ resp' = [status |-> status, body |-> body]
       /\ Reject(NotOkMessage(status, body), "http")
  /\ UNCHANGED <<stream, pos, pending, buffer, log, disp, nrec, multi, page, sent>>
  /\ UNCHANGED <<proxy, callback, auth>>

\* if (!reader) throw new Error("No response body")
NoBody ==
  /\ pc = "start"
  /\ resp' = [status |-> 200, body |-> "none"]
  /\ Reject("No response body", "nobody")
  /\ UNCHANGED <<stream, pos, pending, buffer, log, disp, nrec, multi, page, sent>>
  /\ UNCHANGED <<proxy, callback, auth>>

\* the response is ok and has a body: the read loop starts
StreamOpened ==
  /\ pc = "start"
  /\ \E s \in Streams : stream' = s
  /\ resp' = [status |-> 200, body |-> "stream"]
  /\ pc' = "reading"
  /\ UNCHANGED <<pos, pending, buffer, log, error, cause, disp, nrec, multi, page, sent>>
  /\ UNCHANGED <<proxy, callback, auth>>

\* a read loop that forgets the incomplete record between two reads
RetainNothing(segs) == <<>>

\* buffer = messages.pop() || "": the last segment stays in the buffer
Retain(segs) == segs[Len(segs)]

\* a read loop that leaves the last complete record of a batch unhandled
CompleteButLast(segs) == SubSeq(segs, 1, Len(segs) - 2)

\* the segments before the last one are the complete records
Complete(segs) == SubSeq(segs, 1, Len(segs) - 1)

\* one iteration of the read loop for a chunk of n bytes
ReadChunk ==
  /\ pc = "reading"
  /\ pos < Len(stream)
  /\ \E n \in 1..(Len(stream) - pos) :
       LET value == SubSeq(stream, pos + 1, pos + n)
           d == DecodeBytes(pending \o value)
           segs == SplitRecords(buffer \o d.out)
           h == HandleRecords(Complete(segs))
       IN /\ pos' = pos + n
          /\ pending' = d.pend
          /\ buffer' = Retain(segs)
          /\ log' = log \o h.calls
          /\ disp' = disp \o [i \in 1..Len(h.src) |-> nrec + h.src[i]]
          /\ nrec' = nrec + h.n
          /\ multi' = (pos > 0)
          /\ page' = Deliver(page, sent.userMessage, h.calls)
          /\ IF h.threw
             THEN Reject(h.err, "record")
             ELSE UNCHANGED <<pc, error, cause>>
  /\ UNCHANGED <<resp, stream, sent>>
  /\ UNCHANGED <<proxy, callback, auth>>

\* an end of stream that handles what is left in the buffer as a record
ReadDoneWithFlush ==
  /\ pc = "reading"
  /\ pos = Len(stream)
  /\ LET h == HandleRecords(IF Trim(buffer) # <<>> THEN <<buffer>> ELSE <<>>) IN
       /\ log' = log \o h.calls
       /\ disp' = disp \o [i \in 1..Len(h.src) |-> nrec + h.src[i]]
       /\ nrec' = nrec + h.n
       /\ IF h.threw
          THEN Reject(h.err, "record")
          ELSE pc' = "resolved" /\ UNCHANGED <<error, cause>>
  /\ UNCHANGED <<resp, stream, pos, pending, buffer, multi, page, sent>>
  /\ UNCHANGED <<proxy, callback, auth>>

\* reader.read() gives done: the loop ends and the promise resolves
ReadDone ==
  /\ pc = "reading"
  /\ pos = Len(stream)
  /\ pc' = "resolved"
  /\ UNCHANGED <<resp, stream, pos, pending, buffer, log, error, cause, disp, nrec, multi, page, sent>>
  /\ UNCHANGED <<proxy, callback, auth>>

\* a transport failure that is also reported through onError
ReadFailsViaOnError ==
  /\ pc = "reading"
  /\ Reject("network error", "transport")
  /\ log' = log \o <<Call("onError", NoMsg, "network error", NoUsage)>>
  /\ disp' = disp \o <<nrec + 1>>
  /\ UNCHANGED <<resp, stream, pos, pending, buffer, nrec, multi, page, sent>>
  /\ UNCHANGED <<proxy, callback, auth>>

\* reader.read() rejects: sendMessage rejects with that error
ReadFails ==
  /\ pc = "reading"
  /\ Reject("network error", "transport")
  /\ UNCHANGED <<resp, stream, pos, pending, buffer, log, disp, nrec, multi, page, sent>>
  /\ UNCHANGED <<proxy, callback, auth>>

Next ==
  \/ FetchFails
  \/ ResponseNotOk
  \/ NoBody
  \/ StreamOpened
  \/ ReadChunk
  \/ ReadDone
  \/ ReadFails

Spec == Init /\ [][Next]_vars

(* ------------------------ reference computations ----------------------- *)
\* the text of a whole body
Decoded(bytes) == DecodeBytes(bytes).out

\* the records of a body that are terminated by a blank line
TerminatedRecords(bytes) == Complete(SplitRecords(Decoded(bytes)))

\* what sendMessage does when the bytes arrive as one chunk followed by
\* end-of-stream: the callbacks, and how the promise settles
OneChunk(bytes) ==
  LET h == HandleRecords(TerminatedRecords(bytes)) IN
  [calls |-> h.calls,
   pc |-> IF h.threw THEN "rejected" ELSE "resolved",
   error |-> h.err]

\* the run was not cut short by the transport
Settled == pc = "resolved" \/ (pc = "rejected" /\ cause = "record")

(* C1: chunk-boundary independence.  However the body was cut into chunks, *)
(* when sendMessage settles, the callbacks it has invoked (kind and        *)
(* arguments, in order) and the way the promise settled are those of the   *)
(* run in which the whole body arrives as one chunk.                       *)
C1_ChunkBoundaryIndependence ==
  Settled =>
    /\ log = OneChunk(stream).calls
    /\ pc = OneChunk(stream).pc
    /\ error = OneChunk(stream).error

\* a body of two records that arrived in several chunks has settled
C1_Witness ==
  /\ pc = "resolved"
  /\ multi
  /\ Len(log) >= 2
  /\ \E i \in 1..Len(stream) : stream[i] = LEAD

\* the number of record separators in the first n bytes of the body,
\* counted left to right without overlap
RECURSIVE CountSeps(_, _, _)
CountSeps(bytes, i, n) ==
  IF i + 1 > n THEN 0
  ELSE IF bytes[i] = NL /\ bytes[i + 1] = NL THEN 1 + CountSeps(bytes, i + 2, n)
  ELSE CountSeps(bytes, i + 1, n)

\* the number of records of the body completed by the bytes delivered so far
Completed == CountSeps(stream, 1, pos)

\* the k-th terminated record of the body
RecordAt(k) == TerminatedRecords(stream)[k]

\* the event name and the payload text of a record
Fields(r) == ScanLines(SplitLines(r), <<>>, <<>>)

\* the record has a payload, and the payload is valid JSON or not
HasData(r) == Trim(r) # <<>> /\ Fields(r).eventData # <<>>
ValidJson(r) == HasData(r) /\ JsonParse(Fields(r).eventData).ok
Payload(r) == JsonParse(Fields(r).eventData).v

\* the callbacks that record k made, as positions in the log
CallsOf(k) == { i \in DOMAIN disp : disp[i] = k }

\* sendMessage rejected while it handled record k
ThrewAt(k) == pc = "rejected" /\ cause = "record" /\ nrec = k

\* record k makes a callback when it is handled on its own
MakesCall(k) ==
  /\ ~HandleRecord(RecordAt(k)).threw
  /\ HandleRecord(RecordAt(k)).calls # <<>>

\* the records after k that the delivered bytes complete are handled too
ContinuesAfter(k) ==
  /\ pc \in {"reading", "resolved"} => nrec = Completed
  /\ pc = "resolved" =>
       \A j \in (k + 1)..Len(TerminatedRecords(stream)) : MakesCall(j) => CallsOf(j) # {}

(* C2: malformed JSON tolerance.  A complete record whose data payload is  *)
(* not valid JSON invokes no callback and does not make sendMessage        *)
(* reject, and the valid records after it still fire their callbacks.      *)
C2_MalformedJsonSkipped ==
  \A k \in 1..nrec :
    (HasData(RecordAt(k)) /\ ~ValidJson(RecordAt(k))) =>
      /\ CallsOf(k) = {}
      /\ ~ThrewAt(k)
      /\ ContinuesAfter(k)

(* C3: ordering.  The callbacks are invoked in the order of their records  *)
(* in the stream, each one is the callback of the record it is attributed  *)
(* to, and when a read has been processed every record that the delivered  *)
(* bytes complete has been handled: none is deferred to a later chunk.     *)
C3_CallbackOrder ==
  /\ \A i, j \in DOMAIN disp : i < j => disp[i] < disp[j]
  /\ \A i \in DOMAIN disp : HandleRecord(RecordAt(disp[i])).calls = <<log[i]>>
  /\ pc \in {"reading", "resolved"} => nrec = Completed
  /\ \A k \in 1..nrec : (MakesCall(k) /\ ~ThrewAt(k)) => CallsOf(k) # {}

\* two different callbacks were invoked over several reads, and a partial
\* record waits in the buffer
C3_Witness ==
  /\ pc = "reading"
  /\ multi
  /\ Len(log) >= 2
  /\ log[1].cb # log[2].cb
  /\ buffer # <<>>

(* C4: connection-establishment failure.  When the response is not ok, or  *)
(* is ok but has no readable body, sendMessage rejects and no callback is  *)
(* invoked for that call.                                                  *)
C4_NoCallbackWithoutStream ==
  cause \in {"http", "nobody"} => (pc = "rejected" /\ log = <<>> /\ error # U)

\* the server answered 402 with {"error":"Insufficient credits"}
C4_Witness ==
  /\ cause = "http"
  /\ resp.status = 402
  /\ resp.body = "errorString"
  /\ error = "Insufficient credits"

IsErrorRecord(r) ==
  /\ ValidJson(r)
  /\ Fields(r).eventType = <<"error">>
  /\ Payload(r).k = "obj"

(* C6: in-band error events are not fatal.  Every error record with an     *)
(* object payload that the loop reaches invokes onError exactly once, does *)
(* not make sendMessage reject, and the loop goes on with the records      *)
(* after it until the end of the stream.                                   *)
C6_ErrorEventNotFatal ==
  \A k \in 1..nrec :
    IsErrorRecord(RecordAt(k)) =>
      /\ Cardinality(CallsOf(k)) = 1
      /\ \A i \in CallsOf(k) : log[i].cb = "onError"
      /\ ~ThrewAt(k)
      /\ ContinuesAfter(k)

\* an error record was followed by a record that made its own callback
C6_Witness ==
  /\ pc = "resolved"
  /\ Len(log) = 2
  /\ log[1].cb = "onError"
  /\ log[1].str = "insufficient credits"
  /\ log[2].cb = "onComplete"

\* the buffer holds a partial record that begins with the data prefix and
\* carries a complete or error payload
TrailingDataRecord ==
  /\ Trim(buffer) # <<>>
  /\ StartsWith(buffer, DATA_PREFIX)
  /\ JsonParse(Tail(buffer)).ok
  /\ JsonParse(Tail(buffer)).v.type \in {"complete", "error"}

(* C7 as stated: when the reader signals end-of-stream while the buffer    *)
(* holds a partial record that begins with the data prefix and carries a   *)
(* complete or error payload, sendMessage handles that record and          *)
(* dispatches a final event before it resolves.                            *)
C7_TrailingRecordFlushed ==
  (pc = "resolved" /\ TrailingDataRecord) =>
    /\ nrec = Completed + 1
    /\ log # <<>>
    /\ disp[Len(disp)] = nrec

(* C7 amended: sendMessage has no flush step.  When the reader signals     *)
(* end-of-stream the promise resolves at once; a partial record left in    *)
(* the buffer is never parsed and no callback is invoked for it, so every  *)
(* callback comes from a record that was terminated by a blank line.       *)
C7_TrailingRecordDropped ==
  pc = "resolved" =>
    /\ nrec = CountSeps(stream, 1, Len(stream))
    /\ \A i \in DOMAIN disp : disp[i] <= CountSeps(stream, 1, Len(stream))
    /\ Len(log) = Cardinality({ k \in 1..nrec : MakesCall(k) })

\* the stream ended right after an unterminated data line with an error
\* payload, and the promise resolved
C7_Witness ==
  /\ pc = "resolved"
  /\ TrailingDataRecord
  /\ log # <<>>

\* a record whose payload is valid JSON without the expected structure:
\* JSON null on a message or error event, or a null entry in
\* content.attachments of a user or agent message
LacksShape(r) ==
  /\ ValidJson(r)
  /\ \/ /\ Fields(r).eventType \in {<<"message">>, <<"error">>}
        /\ Payload(r).k = "null"
     \/ /\ Fields(r).eventType = <<"message">>
        /\ Payload(r).k = "obj"
        /\ Payload(r).type \in {"user", "agent"} \/ Payload(r).isAgent
        /\ Payload(r).hasContent
        /\ Payload(r).attKind = "array"
        /\ \E i \in DOMAIN Payload(r).atts : Payload(r).atts[i].k = "null"

(* C8: per-record shape tolerance.  A complete record whose payload is     *)
(* valid JSON but lacks the expected structure is skipped: it invokes no   *)
(* callback, sendMessage does not reject, and later records are still      *)
(* dispatched.                                                             *)
C8_MisshapenRecordSkipped ==
  \A k \in 1..nrec :
    LacksShape(RecordAt(k)) =>
      /\ CallsOf(k) = {}
      /\ ~ThrewAt(k)
      /\ ContinuesAfter(k)

\* a record with valid JSON data that no branch of the dispatch matches: an
\* event name other than connected, message, error and done, or a message
\* whose payload is neither type user, type thinking, isAgent nor type agent
IsUnknownRecord(r) ==
  /\ ValidJson(r)
  /\ \/ Fields(r).eventType \notin {<<"connected">>, <<"message">>, <<"error">>, <<"done">>}
     \/ /\ Fields(r).eventType = <<"message">>
        /\ Payload(r).type \notin {"user", "thinking", "agent"}
        /\ ~Payload(r).isAgent

(* C9: unknown event tolerance.  A complete record with valid JSON data    *)
(* that is of no known event and payload type invokes no callback, and the *)
(* records after it are still processed.                                   *)
C9_UnknownRecordIgnored ==
  \A k \in 1..nrec :
    IsUnknownRecord(RecordAt(k)) =>
      /\ CallsOf(k) = {}
      /\ ~ThrewAt(k)
      /\ ContinuesAfter(k)

(* C10: mid-stream transport failure.  When reader.read() rejects,         *)
(* sendMessage rejects with that error; the callbacks invoked are exactly  *)
(* those of the records completed by the bytes delivered before, in order, *)
(* with none for the partial record in the buffer and none synthesized.    *)
C10_TransportFailure ==
  cause = "transport" =>
    /\ pc = "rejected"
    /\ error = "network error"
    /\ nrec = Completed
    /\ Len(log) = Cardinality({ k \in 1..nrec : MakesCall(k) })
    /\ \A i \in DOMAIN log : HandleRecord(RecordAt(disp[i])).calls = <<log[i]>>

\* the read failed after a callback was invoked and while a partial record
\* was in the buffer
C10_Witness ==
  /\ cause = "transport"
  /\ log # <<>>
  /\ Trim(buffer) # <<>>
  /\ pos < Len(stream)

(* ------------------- streams of the event catalogue -------------------- *)
\* records of the message lifecycle
LifecycleRecords ==
  { Rec("connected", P_empty),
    Rec("message", P_thinking),
    Rec("message", P_agentM1),
    Rec("done", P_empty),
    Rec("message", P_user),
    Rec("message", P_userAgent),
    Rec("message", P_thinkingAgent),
    Rec("message", P_chunk),
    Rec("chunk", P_chunk) }

\* error records
ErrorRecords ==
  { Rec("error", P_errMessage),
    Rec("error", P_errBoth),
    Rec("error", P_errEmptyMessage),
    Rec("error", P_errOnlyError),
    Rec("error", P_errNeither) }

\* records whose lines are missing, repeated or in the other order
FieldRecords ==
  { Rec("connected", P_empty),
    <<EVENT_PREFIX, "connected">>,
    <<EVENT_PREFIX, "error", NL, "data:">> \o P_errMessage,
    <<DATA_PREFIX>> \o P_empty \o <<NL, EVENT_PREFIX, "connected">>,
    <<DATA_PREFIX>> \o P_thinking \o <<NL, EVENT_PREFIX, "message">>,
    <<EVENT_PREFIX, "message", NL, DATA_PREFIX>> \o P_thinking
      \o <<NL, DATA_PREFIX>> \o P_agentType,
    <<EVENT_PREFIX, "error", NL, EVENT_PREFIX, "connected", NL, DATA_PREFIX>> \o P_empty }

\* message records with attachments
AttachmentRecords ==
  { Rec("message", P_attUrlOnly),
    Rec("message", P_attMixed),
    Rec("message", P_attEmpty),
    Rec("message", P_attNotArray),
    Rec("message", P_attNoUrl),
    Rec("message", P_attTwoNoId),
    Rec("message", P_attNull) }

\* message records with and without a usable createdAt
DateRecords ==
  { Rec("message", P_user),
    Rec("message", P_agentM1),
    Rec("message", P_userEmptyDate),
    Rec("message", P_agentBadDate),
    Rec("message", P_userNullDate) }

\* the concatenations of up to n terminated records of a pool
RECURSIVE StreamsFrom(_, _)
StreamsFrom(pool, n) ==
  IF n = 0 THEN { <<>> }
  ELSE LET S == StreamsFrom(pool, n - 1) IN
       S \cup { s \o r \o <<NL, NL>> : s \in S, r \in pool }

\* the stream of the end-to-end scenario: connected, thinking, the agent
\* message m1 and done, each terminated by a blank line
ScenarioStream ==
  Rec("connected", P_empty) \o <<NL, NL>>
    \o Rec("message", P_thinking) \o <<NL, NL>>
    \o Rec("message", P_agentM1) \o <<NL, NL>>
    \o Rec("done", P_empty) \o <<NL, NL>>

EventStreams ==
  StreamsFrom(LifecycleRecords, MaxRecords)
    \cup StreamsFrom(ErrorRecords, MaxRecords)
    \cup StreamsFrom(FieldRecords, MaxRecords)
    \cup StreamsFrom(AttachmentRecords, MaxRecords)
    \cup StreamsFrom(DateRecords, MaxRecords)
    \cup { ScenarioStream }

\* the response is ok and its body is a stream of the event catalogue
EventStreamOpened ==
  /\ pc = "start"
  /\ \E s \in EventStreams : stream' = s
  /\ resp' = [status |-> 200, body |-> "stream"]
  /\ pc' = "reading"
  /\ UNCHANGED <<pos, pending, buffer, log, error, cause, disp, nrec, multi, page, sent>>
  /\ UNCHANGED <<proxy, callback, auth>>

NextEvents ==
  \/ EventStreamOpened
  \/ ReadChunk
  \/ ReadDone

SpecEvents == Init /\ [][NextEvents]_vars

\* the message the scenario's agent record must give
ScenarioMessage ==
  [id |-> "m1", content |-> "Hello!", role |-> "assistant",
   createdAt |-> "2024-01-01T00:00:00.000Z", attachments |-> <<>>]

(* C11: end-to-end scenario.  For the stream connected, thinking, agent    *)
(* message m1 "Hello!", done, the callbacks are exactly onStart(),         *)
(* onThinking(), onComplete(m1 message, {tokens: 0, cost: 0}) and the      *)
(* promise resolves, with no onChunk and no onError; and in every stream   *)
(* the usage argument of onComplete is {tokens: 0, cost: 0}.               *)
C11_EndToEndScenario ==
  /\ stream = ScenarioStream => pc # "rejected"
  /\ (stream = ScenarioStream /\ pc = "resolved") =>
       log = << Call("onStart", NoMsg, U, NoUsage),
                Call("onThinking", NoMsg, U, NoUsage),
                Call("onComplete", ScenarioMessage, U, [tokens |-> 0, cost |-> 0]) >>
  /\ \A i \in DOMAIN log :
       log[i].cb = "onComplete" => log[i].usage = [tokens |-> 0, cost |-> 0]

\* the scenario stream arrived in several chunks and the promise resolved
C11_Witness ==
  /\ stream = ScenarioStream
  /\ pc = "resolved"
  /\ multi
  /\ Len(log) = 3

\* the payload of the record that made call i
PayloadOfCall(i) == Payload(RecordAt(disp[i]))

(* C12 as stated: the string passed to onError is payload.message whenever *)
(* that field is present, the empty string included, otherwise            *)
(* payload.error when that field is present, otherwise "Unknown error".    *)
C12_OnErrorArgumentNullish ==
  \A i \in DOMAIN log :
    log[i].cb = "onError" =>
      log[i].str = IF PayloadOfCall(i).message # U THEN PayloadOfCall(i).message
                   ELSE IF PayloadOfCall(i).error # U THEN PayloadOfCall(i).error
                   ELSE "Unknown error"

(* C12 amended: the string passed to onError is payload.message when that  *)
(* field is truthy (present and not the empty string), otherwise           *)
(* payload.error when that field is truthy, otherwise "Unknown error".     *)
C12_OnErrorArgument ==
  \A i \in DOMAIN log :
    log[i].cb = "onError" =>
      /\ Fields(RecordAt(disp[i])).eventType = <<"error">>
      /\ log[i].str =
           IF PayloadOfCall(i).message \notin {U, ""} THEN PayloadOfCall(i).message
           ELSE IF PayloadOfCall(i).error \notin {U, ""} THEN PayloadOfCall(i).error
           ELSE "Unknown error"

\* an error record with an empty message and an error code was dispatched
C12_Witness ==
  \E i \in DOMAIN log :
    /\ log[i].cb = "onError"
    /\ PayloadOfCall(i).message = ""
    /\ log[i].str = "E500"

\* a non-blank record none of whose lines starts with the data prefix
NoDataLine(r) ==
  /\ Trim(r) # <<>>
  /\ \A i \in DOMAIN SplitLines(r) : ~StartsWith(SplitLines(r)[i], DATA_PREFIX)

(* C13: record without data.  A complete record with no line that starts   *)
(* with "data: " is discarded: it invokes no callback whatever its event   *)
(* name, sendMessage does not reject, and the next records are processed.  *)
C13_RecordWithoutDataDiscarded ==
  \A k \in 1..nrec :
    NoDataLine(RecordAt(k)) =>
      /\ CallsOf(k) = {}
      /\ ~ThrewAt(k)
      /\ ContinuesAfter(k)

\* a record with only an event line was followed by a record that made a
\* callback
C13_Witness ==
  /\ pc = "resolved"
  /\ nrec = 2
  /\ RecordAt(1) = <<EVENT_PREFIX, "connected">>
  /\ disp = <<2>>

\* an entry of content.attachments with a non-empty string url
Qualifies(att) == att.k = "obj" /\ att.urlIsString /\ att.url \notin {U, ""}

\* the entries of the payload's content.attachments, when it is an array
EntriesOf(data) ==
  IF data.hasContent /\ data.attKind = "array" THEN data.atts ELSE <<>>

\* a message record of type user or agent
IsChatRecord(r) ==
  /\ ValidJson(r)
  /\ Fields(r).eventType = <<"message">>
  /\ Payload(r).k = "obj"
  /\ Payload(r).type \in {"user", "agent"} \/ (Payload(r).isAgent /\ Payload(r).type # "thinking")

(* C14: attachment extraction.  The attachments of the message passed to   *)
(* onUserMessage or onComplete are the entries of content.attachments with *)
(* a non-empty string url, in their order, each with the url and title of  *)
(* its entry, a non-empty id (the entry's own when it has one) and the     *)
(* entry's contentType or "image"; there are none (the field is undefined) *)
(* when no entry qualifies or attachments is absent or not an array.       *)
(* Every user or agent record without a null entry delivers its message.   *)
C14_AttachmentExtraction ==
  /\ \A i \in DOMAIN log :
       log[i].cb \in {"onUserMessage", "onComplete"} =>
         LET q == SelectSeq(EntriesOf(PayloadOfCall(i)), Qualifies)
             a == log[i].msg.attachments
         IN /\ Len(a) = Len(q)
            /\ \A j \in DOMAIN a :
                 /\ a[j].url = q[j].url
                 /\ a[j].title = q[j].title
                 /\ a[j].id \notin {U, ""}
                 /\ q[j].id \notin {U, ""} => a[j].id = q[j].id
                 /\ a[j].contentType =
                      IF q[j].contentType \in {U, ""} THEN "image" ELSE q[j].contentType
  /\ \A k \in 1..nrec :
       ( /\ IsChatRecord(RecordAt(k))
         /\ \A j \in DOMAIN EntriesOf(Payload(RecordAt(k))) :
              EntriesOf(Payload(RecordAt(k)))[j].k = "obj" )
       => Cardinality(CallsOf(k)) = 1

\* a message with four attachment entries was delivered with the two that
\* have a non-empty string url
C14_Witness ==
  \E i \in DOMAIN log :
    /\ log[i].cb = "onComplete"
    /\ Len(EntriesOf(PayloadOfCall(i))) = 4
    /\ Len(log[i].msg.attachments) = 2
    /\ log[i].msg.attachments[1].contentType = "video"
    /\ log[i].msg.attachments[2].contentType = "image"

\* a record of the done event with a JSON payload
IsDoneRecord(r) == ValidJson(r) /\ Fields(r).eventType = <<"done">>

(* C15: the done event is a no-op.  A done record invokes no callback and  *)
(* does not end the read loop: the records after it are still handled.     *)
(* The promise is resolved only once the reader has handed over the whole  *)
(* body and reports the end of the stream, and that report resolves it     *)
(* whether or not a done record was received.                              *)
C15_DoneIsNoOp ==
  /\ \A k \in 1..nrec :
       IsDoneRecord(RecordAt(k)) =>
         /\ CallsOf(k) = {}
         /\ ~ThrewAt(k)
         /\ ContinuesAfter(k)
  /\ pc = "resolved" => pos = Len(stream) /\ nrec = Len(TerminatedRecords(stream))
  /\ (pc = "reading" /\ pos = Len(stream)) => ENABLED ReadDone

\* a record that followed a done record made its callback, and the promise
\* resolved at the end of the stream
C15_Witness ==
  /\ pc = "resolved"
  /\ \E k \in 1..(nrec - 1) :
       /\ IsDoneRecord(RecordAt(k))
       /\ CallsOf(k + 1) # {}

\* the callback that the type and isAgent fields of a message payload select
CallbackFor(data) ==
  IF data.type = "user" THEN "onUserMessage"
  ELSE IF data.type = "thinking" THEN "onThinking"
  ELSE IF data.isAgent \/ data.type = "agent" THEN "onComplete"
  ELSE "none"

\* a message record whose payload is a JSON object
IsMessageRecord(r) ==
  /\ ValidJson(r)
  /\ Fields(r).eventType = <<"message">>
  /\ Payload(r).k = "obj"

(* C18: classification of message records.  Every complete record makes at *)
(* most one callback.  A message record makes the one its payload selects, *)
(* in this priority: type "user" gives onUserMessage with role user, else  *)
(* type "thinking" gives onThinking, else isAgent or type "agent" gives    *)
(* onComplete with role assistant, else none; it makes that callback       *)
(* unless the record threw.                                                *)
C18_MessageClassification ==
  \A k \in 1..nrec :
    /\ Cardinality(CallsOf(k)) <= 1
    /\ IsMessageRecord(RecordAt(k)) =>
         LET want == CallbackFor(Payload(RecordAt(k))) IN
         /\ \A i \in CallsOf(k) :
              /\ log[i].cb = want
              /\ want = "onUserMessage" => log[i].msg.role = "user"
              /\ want = "onComplete" => log[i].msg.role = "assistant"
         /\ (want # "none" /\ ~ThrewAt(k)) => CallsOf(k) # {}

\* a payload with type "user" and isAgent true went to onUserMessage, and a
\* payload with type "thinking" and isAgent true went to onThinking
C18_Witness ==
  /\ \E i \in DOMAIN log :
       /\ log[i].cb = "onUserMessage"
       /\ PayloadOfCall(i).isAgent
  /\ \E i \in DOMAIN log :
       /\ log[i].cb = "onThinking"
       /\ PayloadOfCall(i).isAgent

\* a record that announces a piece of streamed text, by its event name or by
\* the type of its payload
IsChunkRecord(r) ==
  /\ ValidJson(r)
  /\ Payload(r).k = "obj"
  /\ Fields(r).eventType = <<"chunk">> \/ Payload(r).type = "chunk"

(* C19: onChunk is never invoked.  Whatever records the stream carries,    *)
(* every callback sendMessage makes is one of onStart, onUserMessage,      *)
(* onThinking, onComplete and onError; a record named chunk or typed chunk *)
(* makes no callback at all.                                               *)
C19_OnChunkNeverInvoked ==
  /\ \A i \in DOMAIN log :
       /\ log[i].cb # "onChunk"
       /\ log[i].cb \in {"onStart", "onUserMessage", "onThinking", "onComplete", "onError"}
  /\ \A k \in 1..nrec : IsChunkRecord(RecordAt(k)) => CallsOf(k) = {}

\* a chunk event and a message of type chunk were both handled and the
\* promise resolved
C19_Witness ==
  /\ pc = "resolved"
  /\ \E k \in 1..nrec :
       IsChunkRecord(RecordAt(k)) /\ Fields(RecordAt(k)).eventType = <<"chunk">>
  /\ \E k \in 1..nrec :
       IsChunkRecord(RecordAt(k)) /\ Fields(RecordAt(k)).eventType = <<"message">>

\* the positions of the lines of a record that start with a prefix
LinesWith(lines, prefix) == { i \in DOMAIN lines : StartsWith(lines[i], prefix) }

\* what follows the prefix on the last line that starts with it
LastLine(lines, prefix) ==
  LET idx == LinesWith(lines, prefix) IN
  IF idx = {} THEN <<>>
  ELSE Tail(lines[CHOOSE i \in idx : \A j \in idx : j <= i])

\* the outcome of a record whose dispatch uses the last line of each kind
OutcomeOfLines(lines) ==
  LET ev == Trim(LastLine(lines, EVENT_PREFIX))
      data == LastLine(lines, DATA_PREFIX)
  IN IF data = <<>> THEN Calls(<<>>)
     ELSE IF ~JsonParse(data).ok THEN Threw("SyntaxError")
     ELSE Dispatch(ev, JsonParse(data).v)

\* the lines of a record in the opposite order
Reversed(lines) == [i \in 1..Len(lines) |-> lines[Len(lines) + 1 - i]]

\* record k was handled with this outcome
HandledAs(k, o) ==
  IF o.threw THEN ThrewAt(k) /\ CallsOf(k) = {}
  ELSE /\ ~ThrewAt(k)
       /\ Cardinality(CallsOf(k)) = Len(o.calls)
       /\ \A i \in CallsOf(k) : log[i] = o.calls[1]

(* C20: field order and repetition.  A record is dispatched on its last    *)
(* "event: " line and its last "data: " line, whatever other lines of the  *)
(* same kind come before them; and a record with one line of each kind     *)
(* gives the same callback with its lines in the other order.              *)
C20_FieldOrderAndRepetition ==
  \A k \in 1..nrec :
    LET lines == SplitLines(RecordAt(k)) IN
    Trim(RecordAt(k)) # <<>> =>
      /\ HandledAs(k, OutcomeOfLines(lines))
      /\ ( /\ Cardinality(LinesWith(lines, EVENT_PREFIX)) <= 1
           /\ Cardinality(LinesWith(lines, DATA_PREFIX)) <= 1 )
         => HandledAs(k, OutcomeOfLines(Reversed(lines)))

\* a record with two data lines was dispatched on the second, and a record
\* whose data line comes before its event line made its callback
C20_Witness ==
  /\ \E k \in 1..nrec :
       /\ Cardinality(LinesWith(SplitLines(RecordAt(k)), DATA_PREFIX)) = 2
       /\ \E i \in CallsOf(k) : log[i].cb = "onComplete"
  /\ \E k \in 1..nrec :
       /\ StartsWith(SplitLines(RecordAt(k))[1], DATA_PREFIX)
       /\ \E i \in CallsOf(k) : log[i].cb = "onThinking"

\* the number of handleSend calls in a run of the chat page
MaxSends == 2

\* the chat that getChat returns: its only message has the text that the
\* user is about to type
ChatHistories ==
  { <<[id |-> "u0", content |-> "hi", role |-> "user",
       createdAt |-> "2024-01-01T00:00:00.000Z", attachments |-> <<>>]>> }

\* what the user can type: a text, or blanks only
Inputs == {"hi", "  "}

\* input.trim()
TrimInput(t) == IF t = "  " THEN "" ELSE t

\* the data URL of the image that handleImageSelect stores
IMAGE_URL == "data:image/jpeg;base64,AAAA"

\* generateId(): crypto.randomUUID(), the k-th one of the page
GenerateId(k) == "uuid-" \o ToString(k)

\* a body made of these records, each terminated by a blank line
RECURSIVE StreamOf(_)
StreamOf(recs) ==
  IF recs = <<>> THEN <<>>
  ELSE Head(recs) \o <<NL, NL>> \o StreamOf(Tail(recs))

\* the bodies that the server sends to the chat page
ChatStreams ==
  { StreamOf(<<Rec("connected", P_empty), Rec("message", P_user),
               Rec("message", P_agentM1)>>),
    StreamOf(<<Rec("message", P_user), Rec("message", P_userAgent)>>),
    StreamOf(<<Rec("message", P_attUrlOnly)>>),
    StreamOf(<<Rec("connected", P_empty), Rec("message", P_bad)>>),
    StreamOf(<<Rec("error", P_errMessage)>>),
    StreamOf(<<Rec("connected", P_empty)>>) }

\* the chat page after fetchData; no sendMessage call has been made
InitChat ==
  /\ pc = "idle"
  /\ resp = NoResp
  /\ stream = <<>>
  /\ pos = 0
  /\ pending = <<>>
  /\ buffer = <<>>
  /\ log = <<>>
  /\ error = U
  /\ cause = "none"
  /\ disp = <<>>
  /\ nrec = 0
  /\ multi = FALSE
  /\ \E h \in ChatHistories : page = PageWith(h)
  /\ sent = NoSend
  /\ proxy = UNUSED
  /\ callback = UNUSED
  /\ auth = UNUSED

\* the state updates of an event handler are left to a later render
RenderedAfterEvent(p) == p

\* the state updates that a click, key or change handler makes are rendered
\* when the handler returns, before the next event is dispatched
RenderedInEvent(p) == Rendered(p)

\* onChange={(e) => setInput(e.target.value)}; the textarea is disabled
\* while sending
onChange ==
  /\ ~page.rendered.sending
  /\ \E t \in Inputs : page' = RenderedInEvent([page EXCEPT !.input = t])
  /\ UNCHANGED <<pc, resp, stream, pos, pending, buffer, log, error, cause, disp, nrec,
                 multi, sent>>
  /\ UNCHANGED <<proxy, callback, auth>>

\* handleImageSelect for a file that fails validation, or for one that is
\* stored as a data URL; its callers return early while sending
handleImageSelect ==
  /\ ~page.rendered.sending
  /\ \/ page' = RenderedInEvent([page EXCEPT !.error = "Please select an image file"])
     \/ page' = RenderedInEvent([page EXCEPT !.error = NULL, !.selectedImage = IMAGE_URL])
  /\ UNCHANGED <<pc, resp, stream, pos, pending, buffer, log, error, cause, disp, nrec,
                 multi, sent>>
  /\ UNCHANGED <<proxy, callback, auth>>

\* if ((!input.trim() && !selectedImage) || sending) return; the three
\* values are those of the render whose handler is called
handleSendReturnsEarly(r) ==
  (TrimInput(r.input) = "" /\ r.selectedImage = NULL) \/ r.sending

\* handleSend up to the call of sendMessage, called from the click or the
\* Enter key handler: the optimistic user message is appended and sendMessage
\* starts; the state updates of the event are rendered before the next event
handleSend ==
  /\ ~handleSendReturnsEarly(page.rendered)
  /\ sent.n < MaxSends
  /\ LET messageText == TrimInput(page.rendered.input)
         imageToSend == page.rendered.selectedImage
         messageId == GenerateId(2 * sent.n + 1)
         attachmentId == GenerateId(2 * sent.n + 2)
         userAttachments ==
           IF imageToSend # NULL
           THEN <<[id |-> attachmentId, url |-> imageToSend, title |-> U,
                   contentType |-> "image"]>>
           ELSE <<>>
         userMessage ==
           [id |-> messageId,
            content |-> IF messageText # "" THEN messageText ELSE "[Image]",
            role |-> "user",
            createdAt |-> NOW,
            attachments |-> userAttachments]
     IN /\ page' = RenderedInEvent(
                     [page EXCEPT !.input = "",
                                  !.selectedImage = NULL,
                                  !.sending = TRUE,
                                  !.error = NULL,
                                  !.streamingContent = "",
                                  !.isThinking = FALSE,
                                  !.messages = Append(page.messages, userMessage)])
        /\ sent' = [at |-> "awaiting", userMessage |-> userMessage,
                    prev |-> page.messages, n |-> sent.n + 1]
  /\ pc' = "start"
  /\ resp' = NoResp
  /\ stream' = <<>>
  /\ pos' = 0
  /\ pending' = <<>>
  /\ buffer' = <<>>
  /\ log' = <<>>
  /\ error' = U
  /\ cause' = "none"
  /\ disp' = <<>>
  /\ nrec' = 0
  /\ multi' = FALSE
  /\ UNCHANGED <<proxy, callback, auth>>

\* the response is ok and its body is one of the bodies of the chat
ChatStreamOpened ==
  /\ pc = "start"
  /\ \E s \in ChatStreams : stream' = s
  /\ resp' = [status |-> 200, body |-> "stream"]
  /\ pc' = "reading"
  /\ UNCHANGED <<pos, pending, buffer, log, error, cause, disp, nrec, multi, page, sent>>
  /\ UNCHANGED <<proxy, callback, auth>>

\* the sendMessage call is over and its locals are gone
CallEnds ==
  /\ pc' = "idle"
  /\ resp' = NoResp
  /\ stream' = <<>>
  /\ pos' = 0
  /\ pending' = <<>>
  /\ buffer' = <<>>
  /\ log' = <<>>
  /\ error' = U
  /\ cause' = "none"
  /\ disp' = <<>>
  /\ nrec' = 0
  /\ multi' = FALSE

\* await sendMessage(...) throws: handleSend ends there, and the statements
\* after the await are not run
handleSendRejects ==
  /\ sent.at = "awaiting"
  /\ pc = "rejected"
  /\ sent' = [sent EXCEPT !.at = "threw"]
  /\ CallEnds
  /\ UNCHANGED page
  /\ UNCHANGED <<proxy, callback, auth>>

\* await sendMessage(...) returns: setSending(false)
handleSendResumes ==
  /\ sent.at = "awaiting"
  /\ pc = "resolved"
  /\ page' = [page EXCEPT !.sending = FALSE]
  /\ sent' = [sent EXCEPT !.at = "returned"]
  /\ CallEnds
  /\ UNCHANGED <<proxy, callback, auth>>

\* a render that follows state updates made outside an event handler (the
\* setSending(false) after the await)
Render ==
  /\ page # Rendered(page)
  /\ page' = Rendered(page)
  /\ UNCHANGED <<pc, resp, stream, pos, pending, buffer, log, error, cause, disp, nrec,
                 multi, sent>>
  /\ UNCHANGED <<proxy, callback, auth>>

NextChat ==
  \/ onChange
  \/ Render
  \/ handleImageSelect
  \/ handleSend
  \/ FetchFails
  \/ ResponseNotOk
  \/ NoBody
  \/ ChatStreamOpened
  \/ ReadChunk
  \/ ReadDone
  \/ ReadFails
  \/ handleSendResumes
  \/ handleSendRejects

SpecChat == InitChat /\ [][NextChat]_vars

\* the positions in the log of the onUserMessage calls of the send in flight
EchoCalls == { i \in DOMAIN log : log[i].cb = "onUserMessage" }

\* the agent messages that the send in flight has completed, in order
IsOnComplete(c) == c.cb = "onComplete"
CompletedMessages == SelectSeq(log, IsOnComplete)

\* the server's message with the local attachments when it has none
Reconciled(msg, m) ==
  IF msg.attachments = <<>> THEN [msg EXCEPT !.attachments = m.attachments] ELSE msg

(* C16: optimistic reconciliation.  During a send, an onUserMessage call   *)
(* replaces the entry that carries the temporary id of that send, and no   *)
(* other: the entries that were in the list before the send are unchanged  *)
(* (also one with the same text as the new message), the list still has    *)
(* one entry per message (those before, the optimistic one, one per agent  *)
(* message completed), and the optimistic entry is the local message until *)
(* the server's message arrives and then the server's message, with the    *)
(* local attachments when the server's has none.                           *)
C16_OptimisticReconciliation ==
  sent.at = "awaiting" =>
    LET t == Len(sent.prev) + 1 IN
    /\ Len(page.messages) = t + Len(CompletedMessages)
    /\ \A i \in 1..Len(sent.prev) : page.messages[i] = sent.prev[i]
    /\ page.messages[t] =
         IF EchoCalls = {} THEN sent.userMessage
         ELSE Reconciled(log[CHOOSE i \in EchoCalls : \A j \in EchoCalls : i <= j].msg,
                         sent.userMessage)
    /\ \A j \in 1..Len(CompletedMessages) :
         page.messages[t + j] = CompletedMessages[j].msg

\* the server's message without attachments has taken the place of an
\* optimistic message with an image, next to an earlier message of the same
\* text that was left alone
C16_Witness ==
  /\ sent.at = "awaiting"
  /\ EchoCalls # {}
  /\ sent.userMessage.attachments # <<>>
  /\ \E i \in EchoCalls : log[i].msg.attachments = <<>>
  /\ LET t == Len(sent.prev) + 1 IN
       /\ page.messages[t].id = "u1"
       /\ page.messages[t].attachments = sent.userMessage.attachments
       /\ \E i \in 1..Len(sent.prev) :
            /\ sent.prev[i].content = sent.userMessage.content
            /\ page.messages[i].id = "u0"

(* C17: retry after a failed send.  Once the sendMessage call of a         *)
(* handleSend has settled and handleSend has ended, the sending flag is    *)
(* false again, so that the next handleSend passes its guard; and when the *)
(* call rejected, the error state holds a message for the user.            *)
C17_SendingClearedAfterSettle ==
  sent.at \in {"returned", "threw"} =>
    /\ ~page.sending
    /\ sent.at = "threw" => page.error # NULL

\* a createdAt that is missing, null, empty or not a date
Unparseable(value) == value \in {U, NULL, "", "not-a-date"}

\* the attachments of the payload have a null entry (reading its url throws)
HasNullEntry(data) == \E j \in DOMAIN EntriesOf(data) : EntriesOf(data)[j].k = "null"

(* C21: timestamp fallback.  A user or agent message record whose          *)
(* createdAt is missing, null, empty or not a date is not skipped and does *)
(* not make sendMessage reject: it makes its one callback, with a message  *)
(* whose createdAt is the current time.  (Such a record rejects only when  *)
(* its attachments have a null entry, whatever its createdAt.)             *)
C21_TimestampFallback ==
  \A k \in 1..nrec :
    LET r == RecordAt(k) IN
    (IsChatRecord(r) /\ Unparseable(Payload(r).createdAt)) =>
      /\ ThrewAt(k) => HasNullEntry(Payload(r))
      /\ ~HasNullEntry(Payload(r)) =>
           /\ Cardinality(CallsOf(k)) = 1
           /\ \A i \in CallsOf(k) :
                /\ log[i].cb \in {"onUserMessage", "onComplete"}
                /\ log[i].msg.createdAt = NOW
                /\ log[i].msg.id = Payload(r).id

\* a record with createdAt "not-a-date" and one with an empty createdAt
\* were delivered with the current time, and the promise resolved
C21_Witness ==
  /\ pc = "resolved"
  /\ \E i \in DOMAIN log :
       /\ PayloadOfCall(i).createdAt = "not-a-date"
       /\ log[i].cb = "onComplete"
       /\ log[i].msg.createdAt = NOW
  /\ \E i \in DOMAIN log :
       /\ PayloadOfCall(i).createdAt = ""
       /\ log[i].cb = "onUserMessage"
       /\ log[i].msg.createdAt = NOW


(* ------------------------------ proxy route ---------------------------- *)
\* A header value and a token are sequences of atoms: "Bearer " is one atom,
\* a token prefix such as "miniapp_" is one atom.
BEARER == "Bearer "
MINIAPP_PREFIX == "miniapp_"
ELIZA_PREFIX == "eliza_"

\* the paths after /api/proxy/, as the segments of the catch-all route
ProxyPaths ==
  { <<"user">>,
    <<"agents", "a1", "chats">>,
    <<"stream">>,
    <<"stream", "room1">>,
    <<"stream", "room1", "extra">> }

\* query strings, as the pairs of url.searchParams in order
Param(k, v) == [key |-> k, value |-> v]
ProxyQueries ==
  { <<>>,
    <<Param("limit", "20"), Param("offset", "0")>>,
    <<Param("tag", "a"), Param("tag", "b")>> }

\* values of the incoming Authorization header (NULL: no such header)
AuthorizationValues ==
  { NULL,
    <<BEARER, MINIAPP_PREFIX, "t1">>,
    <<BEARER, ELIZA_PREFIX, "k1">>,
    <<ELIZA_PREFIX, "k2">>,
    <<BEARER, "eyJ.jwt">>,
    <<"Basic ", "dXNlcg==">> }

\* request bodies: none, a JSON object, and text that is not JSON
BODY_JSON == "{\"text\":\"hi\"}"
BODY_BAD == "{text"
ProxyBodies == {"", BODY_JSON, BODY_BAD}

\* the requests that reach the route handlers
ProxyRequests ==
  [ method : {"GET", "POST"},
    path : ProxyPaths,
    query : ProxyQueries,
    authorization : AuthorizationValues,
    xMiniappToken : {NULL, <<MINIAPP_PREFIX, "t2">>},
    cookie : {NULL, "privy-token=abc"},
    contentType : {NULL, "application/json"},
    body : ProxyBodies ]

\* path[0] === "stream" && path[1]
IsStreamPath(path) == Len(path) >= 2 /\ path[1] = "stream" /\ path[2] # ""

\* targetPath, as segments: /api/eliza/rooms/<roomId>/messages/stream for a
\* stream path, /api/v1/miniapp/<path> otherwise
TargetPath(path) ==
  IF IsStreamPath(path)
  THEN <<"api", "eliza", "rooms", path[2], "messages", "stream">>
  ELSE <<"api", "v1", "miniapp">> \o path

\* URLSearchParams.set(key, value): the first pair with that key takes the
\* value and the other pairs with that key are removed; without such a pair
\* the pair is appended
RECURSIVE DropKey(_, _)
DropKey(q, k) ==
  IF q = <<>> THEN <<>>
  ELSE IF Head(q).key = k THEN DropKey(Tail(q), k)
  ELSE <<Head(q)>> \o DropKey(Tail(q), k)
RECURSIVE SetParam(_, _, _)
SetParam(q, k, v) ==
  IF q = <<>> THEN <<Param(k, v)>>
  ELSE IF Head(q).key = k THEN <<Param(k, v)>> \o DropKey(Tail(q), k)
  ELSE <<Head(q)>> \o SetParam(Tail(q), k, v)

\* url.searchParams.forEach((value, key) => targetUrl.searchParams.set(key, value))
RECURSIVE SetParams(_, _)
SetParams(target, query) ==
  IF query = <<>> THEN target
  ELSE SetParams(SetParam(target, Head(query).key, Head(query).value), Tail(query))


\* authHeader.replace("Bearer ", ""): the first occurrence is removed
RECURSIVE RemoveFirst(_, _)
RemoveFirst(s, a) ==
  IF s = <<>> THEN <<>>
  ELSE IF Head(s) = a THEN Tail(s)
  ELSE <<Head(s)>> \o RemoveFirst(Tail(s), a)

\* an auth block in which an explicit x-miniapp-token header does not
\* replace the token taken from the Authorization header
AuthHeadersNoOverride(authorization, xMiniappToken) ==
  LET token == IF authorization = NULL THEN <<>> ELSE RemoveFirst(authorization, BEARER)
      fromAuth ==
        IF authorization = NULL THEN [authorization |-> NULL, xMiniappToken |-> NULL]
        ELSE IF StartsWith(token, ELIZA_PREFIX)
        THEN [authorization |-> <<BEARER>> \o token, xMiniappToken |-> NULL]
        ELSE IF StartsWith(token, MINIAPP_PREFIX)
        THEN [authorization |-> NULL, xMiniappToken |-> token]
        ELSE [authorization |-> authorization, xMiniappToken |-> NULL]
  IN IF xMiniappToken # NULL /\ fromAuth.xMiniappToken = NULL
     THEN [fromAuth EXCEPT !.xMiniappToken = xMiniappToken]
     ELSE fromAuth

\* the Authorization and X-Miniapp-Token headers of the upstream request
AuthHeaders(authorization, xMiniappToken) ==
  LET token == IF authorization = NULL THEN <<>> ELSE RemoveFirst(authorization, BEARER)
      fromAuth ==
        IF authorization = NULL THEN [authorization |-> NULL, xMiniappToken |-> NULL]
        ELSE IF StartsWith(token, ELIZA_PREFIX)
        THEN [authorization |-> <<BEARER>> \o token, xMiniappToken |-> NULL]
        ELSE IF StartsWith(token, MINIAPP_PREFIX)
        THEN [authorization |-> NULL, xMiniappToken |-> token]
        ELSE [authorization |-> authorization, xMiniappToken |-> NULL]
  IN IF xMiniappToken # NULL
     THEN [fromAuth EXCEPT !.xMiniappToken = xMiniappToken]
     ELSE fromAuth

\* the environment of the route: ELIZA_CLOUD_API_KEY and ELIZA_APP_ID
ProxyEnvs ==
  { [apiKey |-> NULL, appId |-> NULL],
    [apiKey |-> "eliza_appkey", appId |-> NULL],
    [apiKey |-> "eliza_appkey", appId |-> "app1"] }

\* the headers of the upstream request; a header that is not set is NULL.
\* No statement of forwardRequest sets a Cookie header.
UpstreamHeaders(req, env) ==
  LET a == AuthHeaders(req.authorization, req.xMiniappToken) IN
  [ngrokSkipBrowserWarning |-> "true",
   contentType |-> req.contentType,
   xApiKey |-> env.apiKey,
   xAppId |-> env.appId,
   authorization |-> a.authorization,
   xMiniappToken |-> a.xMiniappToken,
   cookie |-> NULL]

\* the body of the upstream request: null for GET, the text of the request
\* otherwise, with appPromptConfig added to the JSON body of a stream
\* request; JSON.parse throws on a body that is not JSON
UpstreamBody(req) ==
  IF req.method = "GET" THEN [threw |-> FALSE, text |-> NULL, injected |-> FALSE]
  ELSE IF IsStreamPath(req.path) /\ req.body # ""
  THEN IF req.body = BODY_JSON
       THEN [threw |-> FALSE, text |-> req.body, injected |-> TRUE]
       ELSE [threw |-> TRUE, text |-> NULL, injected |-> FALSE]
  ELSE [threw |-> FALSE, text |-> req.body, injected |-> FALSE]

\* the request that forwardRequest passes to fetch
Upstream(req, env) ==
  [path |-> TargetPath(req.path),
   query |-> SetParams(<<>>, req.query),
   method |-> req.method,
   headers |-> UpstreamHeaders(req, env),
   body |-> UpstreamBody(req)]

NoUpstream == [path |-> <<>>, query |-> <<>>, method |-> NULL, headers |-> NULL,
               body |-> NULL]
NoOutcome == [kind |-> "none", status |-> 0, allowOrigin |-> NULL, body |-> NULL,
              upstream |-> "none"]

\* a response of the proxy; every one of its four return statements sets
\* Access-Control-Allow-Origin: *.  upstream is history: what fetch gave.
ProxyResponse(status, body, upstream) ==
  [kind |-> "response", status |-> status, allowOrigin |-> "*", body |-> body,
   upstream |-> upstream]

\* a request has reached a route handler
InitProxy ==
  /\ pc = "idle"
  /\ resp = NoResp
  /\ stream = <<>>
  /\ pos = 0
  /\ pending = <<>>
  /\ buffer = <<>>
  /\ log = <<>>
  /\ error = U
  /\ cause = "none"
  /\ disp = <<>>
  /\ nrec = 0
  /\ multi = FALSE
  /\ page = PageWith(<<>>)
  /\ sent = NoSend
  /\ \E req \in ProxyRequests, env \in ProxyEnvs :
       proxy = [at |-> "received", req |-> req, env |-> env, up |-> NoUpstream,
                out |-> NoOutcome]
  /\ callback = UNUSED
  /\ auth = UNUSED

\* forwardRequest ends with this outcome after this upstream request
Forwarded(up, out) ==
  /\ proxy' = [proxy EXCEPT !.at = "done", !.up = up, !.out = out]
  /\ UNCHANGED <<chatVars, callback, auth>>

\* JSON.parse(body) throws before the try block: forwardRequest rejects
\* and no upstream request is made
BodyParseThrows ==
  /\ proxy.at = "received"
  /\ UpstreamBody(proxy.req).threw
  /\ Forwarded(NoUpstream, [NoOutcome EXCEPT !.kind = "threw"])

\* fetch rejects: the catch block answers 502
UpstreamFetchFails ==
  /\ proxy.at = "received"
  /\ ~UpstreamBody(proxy.req).threw
  /\ Forwarded(Upstream(proxy.req, proxy.env),
               ProxyResponse(502, "Failed to connect to Eliza Cloud", "unreachable"))

\* the upstream answers with text/event-stream: the body is passed on
UpstreamEventStream ==
  /\ proxy.at = "received"
  /\ ~UpstreamBody(proxy.req).threw
  /\ \E status \in {200, 402} :
       Forwarded(Upstream(proxy.req, proxy.env), ProxyResponse(status, "stream", "stream"))

\* the upstream answers with application/json: the parsed data is passed
\* on, and a body that is not JSON makes response.json() throw inside the
\* try block
UpstreamJson ==
  /\ proxy.at = "received"
  /\ ~UpstreamBody(proxy.req).threw
  /\ \E status \in {200, 401} :
       \/ Forwarded(Upstream(proxy.req, proxy.env),
                    ProxyResponse(status, "json", "json"))
       \/ Forwarded(Upstream(proxy.req, proxy.env),
                    ProxyResponse(502, "Failed to connect to Eliza Cloud", "badjson"))

\* the upstream answers with another content type: the text is passed on
UpstreamText ==
  /\ proxy.at = "received"
  /\ ~UpstreamBody(proxy.req).threw
  /\ \E status \in {200, 500} :
       Forwarded(Upstream(proxy.req, proxy.env), ProxyResponse(status, "text", "text"))

NextProxy ==
  \/ BodyParseThrows
  \/ UpstreamFetchFails
  \/ UpstreamEventStream
  \/ UpstreamJson
  \/ UpstreamText

SpecProxy == InitProxy /\ [][NextProxy]_vars


(* C22: proxy route mapping.  A request for stream/<roomId> is forwarded   *)
(* to /api/eliza/rooms/<roomId>/messages/stream, a request for any other   *)
(* path p to /api/v1/miniapp/<p>, and the query of the upstream request    *)
(* has every parameter of the incoming request.                            *)
C22_RouteMapping ==
  (proxy.at = "done" /\ proxy.out.kind = "response") =>
    LET path == proxy.req.path IN
    /\ proxy.up.path =
         IF Len(path) = 2 /\ path[1] = "stream" /\ path[2] # ""
         THEN <<"api", "eliza", "rooms", path[2], "messages", "stream">>
         ELSE <<"api", "v1", "miniapp">> \o path
    /\ proxy.up.query = proxy.req.query

(* C23: proxy header contract.  The upstream request carries X-Api-Key     *)
(* when ELIZA_CLOUD_API_KEY is configured, and it carries the cookies of   *)
(* the incoming request.                                                   *)
C23_HeaderContract ==
  (proxy.at = "done" /\ proxy.out.kind = "response") =>
    /\ proxy.env.apiKey # NULL => proxy.up.headers.xApiKey = proxy.env.apiKey
    /\ proxy.up.headers.cookie = proxy.req.cookie

(* C24: proxy auth-token routing.  With token the Authorization value      *)
(* without its "Bearer ": a token that starts with "miniapp_" goes         *)
(* upstream as X-Miniapp-Token and there is no Authorization header; a     *)
(* token that starts with "eliza_" goes as Authorization: Bearer <token>;  *)
(* any other value goes unchanged as Authorization; and an explicit        *)
(* x-miniapp-token header of the request is the X-Miniapp-Token upstream.  *)
C24_AuthTokenRouting ==
  (proxy.at = "done" /\ proxy.out.kind = "response") =>
    LET a == proxy.req.authorization
        x == proxy.req.xMiniappToken
        h == proxy.up.headers
        token == IF a = NULL THEN <<>> ELSE RemoveFirst(a, BEARER)
        isMiniapp == a # NULL /\ token # <<>> /\ token[1] = MINIAPP_PREFIX
        isEliza == a # NULL /\ token # <<>> /\ token[1] = ELIZA_PREFIX
    IN
    /\ isMiniapp => h.authorization = NULL /\ (x = NULL => h.xMiniappToken = token)
    /\ isEliza => h.authorization = <<BEARER>> \o token
    /\ (a # NULL /\ ~isMiniapp /\ ~isEliza) => h.authorization = a
    /\ a = NULL => h.authorization = NULL
    /\ x # NULL => h.xMiniappToken = x
    /\ (x = NULL /\ ~isMiniapp) => h.xMiniappToken = NULL

\* a request with a miniapp token in Authorization and another one in
\* x-miniapp-token went upstream with the explicit one and no Authorization
C24_Witness ==
  /\ proxy.at = "done"
  /\ proxy.out.kind = "response"
  /\ proxy.req.authorization = <<BEARER, MINIAPP_PREFIX, "t1">>
  /\ proxy.req.xMiniappToken = <<MINIAPP_PREFIX, "t2">>
  /\ proxy.up.headers.xMiniappToken = <<MINIAPP_PREFIX, "t2">>
  /\ proxy.up.headers.authorization = NULL

(* C25: the proxy always answers.  forwardRequest ends with a response,    *)
(* never by throwing; every response has Access-Control-Allow-Origin: *;   *)
(* and when Eliza Cloud cannot be reached the response is 502 with the     *)
(* error "Failed to connect to Eliza Cloud".                               *)
C25_ProxyAlwaysAnswers ==
  proxy.at = "done" =>
    /\ proxy.out.kind = "response"
    /\ proxy.out.allowOrigin = "*"
    /\ proxy.out.upstream = "unreachable" =>
         /\ proxy.out.status = 502
         /\ proxy.out.body = "Failed to connect to Eliza Cloud"


\* ---------------------------------------------------------------------------
\* C26  Thinking indicator cleared when a send ends: once handleSend has
\* finished, the page's isThinking flag is false, whatever events the stream
\* delivered.  The statement is taken for the sends whose sendMessage call
\* resolved, so that handleSend ran to its last statement.
C26_ThinkingClearedAtEnd ==
  sent.at = "returned" => ~page.isThinking


\* ---------------------------------------------------------------------------
\* C27  At most one stream in flight per chat page: whenever a send trigger
\* would pass the guard of handleSend (with the values of the render it was
\* attached by), no earlier sendMessage call of the page is unsettled; and a
\* handleSend that has just started its sendMessage call has appended exactly
\* one message, its optimistic user message, to the list it found.
C27_OneStreamInFlight ==
  /\ ~handleSendReturnsEarly(page.rendered) => sent.at # "awaiting"
  /\ (sent.at = "awaiting" /\ pc = "start") =>
       page.messages = sent.prev \o <<sent.userMessage>>

\* a second send has started after the first one returned and was rendered
C27_Witness ==
  /\ sent.n = 2
  /\ sent.at = "awaiting"
  /\ pc = "start"
  /\ page.rendered.sending


(* ----------------------------------------------------------------------- *)
(* The auth callback page: handleCallback polls the session endpoint       *)
(* ----------------------------------------------------------------------- *)

\* const maxRetries = 5
maxRetries == 5

\* the calls of handleCallback of one mount that the model follows
MaxPolls == 7

AUTH_TOKEN == "miniapp_tok"

\* searchParams.get("session")
SessionIds == {NULL, "s1"}

\* localStorage miniapp_auth_token when the page mounts
StoredTokens == {NULL, AUTH_TOKEN}

\* the page after mount: handleCallback() is about to run.  seen is history:
\* the statuses that the session endpoint answered
InitCallback ==
  /\ pc = "idle"
  /\ resp = NoResp
  /\ stream = <<>>
  /\ pos = 0
  /\ pending = <<>>
  /\ buffer = <<>>
  /\ log = <<>>
  /\ error = U
  /\ cause = "none"
  /\ disp = <<>>
  /\ nrec = 0
  /\ multi = FALSE
  /\ page = PageWith(<<>>)
  /\ sent = NoSend
  /\ proxy = UNUSED
  /\ \E sid \in SessionIds, tok \in StoredTokens :
       callback = [at |-> "scheduled", sessionId |-> sid, token |-> tok,
                   retryCount |-> 0, polls |-> 0, status |-> "loading",
                   errorMessage |-> "", referralBonus |-> NULL, seen |-> <<>>]
  /\ auth = UNUSED

\* setStatus("success") and the redirect timer
CallbackSucceeds(c) == [c EXCEPT !.at = "done", !.status = "success"]

\* the catch block: a token found in localStorage wins over the error
CallbackCatches(c, message) ==
  IF c.token # NULL
  THEN CallbackSucceeds(c)
  ELSE [c EXCEPT !.at = "done", !.status = "error", !.errorMessage = message]

\* handleCallback is called (on mount, or by the retry timer) and a token is
\* already stored
HandleCallbackFindsToken ==
  /\ callback.at = "scheduled"
  /\ callback.token # NULL
  /\ callback' = CallbackSucceeds(callback)
  /\ UNCHANGED <<chatVars, proxy, auth>>

\* handleCallback is called without a session id
HandleCallbackNoSession ==
  /\ callback.at = "scheduled"
  /\ callback.token = NULL
  /\ callback.sessionId = NULL
  /\ callback' = [callback EXCEPT !.at = "done", !.status = "error",
                                  !.errorMessage = "Missing session ID"]
  /\ UNCHANGED <<chatVars, proxy, auth>>

\* handleCallback is called and fetches the session
HandleCallbackPolls ==
  /\ callback.at = "scheduled"
  /\ callback.token = NULL
  /\ callback.sessionId # NULL
  /\ callback.polls < MaxPolls
  /\ callback' = [callback EXCEPT !.at = "fetching", !.polls = @ + 1]
  /\ UNCHANGED <<chatVars, proxy, auth>>

\* another handleCallback call or another tab stores the token meanwhile
TokenStoredElsewhere ==
  /\ callback.at \in {"scheduled", "fetching"}
  /\ callback.token = NULL
  /\ callback.seen # <<>>
  /\ callback' = [callback EXCEPT !.token = AUTH_TOKEN]
  /\ UNCHANGED <<chatVars, proxy, auth>>

\* fetch rejects, or response.json() throws
SessionFetchFails ==
  /\ callback.at = "fetching"
  /\ callback' = CallbackCatches([callback EXCEPT !.seen = Append(@, "failed")],
                                 "Failed to fetch")
  /\ UNCHANGED <<chatVars, proxy, auth>>

\* !response.ok: throw new Error(errorData.error || "Failed to get auth token")
SessionNotOk ==
  /\ callback.at = "fetching"
  /\ callback' = CallbackCatches([callback EXCEPT !.seen = Append(@, "not ok")],
                                 "Failed to get auth token")
  /\ UNCHANGED <<chatVars, proxy, auth>>

\* status authenticated with an authToken: the token is stored, a pending
\* referral code is applied
SessionAuthenticated ==
  /\ callback.at = "fetching"
  /\ \E bonus \in {NULL, "50"} :
       callback' = CallbackSucceeds(
                     [callback EXCEPT !.token = AUTH_TOKEN,
                                      !.referralBonus = bonus,
                                      !.seen = Append(@, "authenticated")])
  /\ UNCHANGED <<chatVars, proxy, auth>>

\* status authenticated without an authToken
SessionTokenAlreadyRetrieved ==
  /\ callback.at = "fetching"
  /\ LET c == [callback EXCEPT !.seen = Append(@, "authenticated, no token")]
     IN callback' =
          IF c.token # NULL
          THEN CallbackSucceeds(c)
          ELSE CallbackCatches(c, "Token already retrieved. Please try signing in again.")
  /\ UNCHANGED <<chatVars, proxy, auth>>

\* else if (data.status === "pending" || retryCount < maxRetries): retry in
\* one second; else throw new Error("Authentication not completed")
SessionNotCompleted(c, status) ==
  IF status = "pending" \/ c.retryCount < maxRetries
  THEN [c EXCEPT !.retryCount = @ + 1, !.at = "scheduled"]
  ELSE CallbackCatches(c, "Authentication not completed")

\* status pending
SessionPending ==
  /\ callback.at = "fetching"
  /\ callback' = SessionNotCompleted([callback EXCEPT !.seen = Append(@, "pending")],
                                     "pending")
  /\ UNCHANGED <<chatVars, proxy, auth>>

\* a status that is neither authenticated nor pending
SessionUnexpected ==
  /\ callback.at = "fetching"
  /\ callback' = SessionNotCompleted([callback EXCEPT !.seen = Append(@, "expired")],
                                     "expired")
  /\ UNCHANGED <<chatVars, proxy, auth>>

NextCallback ==
  \/ HandleCallbackFindsToken
  \/ HandleCallbackNoSession
  \/ HandleCallbackPolls
  \/ TokenStoredElsewhere
  \/ SessionFetchFails
  \/ SessionNotOk
  \/ SessionAuthenticated
  \/ SessionTokenAlreadyRetrieved
  \/ SessionPending
  \/ SessionUnexpected

SpecCallback == InitCallback /\ [][NextCallback]_vars

\* the session endpoint never answered with a token and no token was stored
NeverYieldedToken ==
  /\ callback.token = NULL
  /\ \A i \in DOMAIN callback.seen : callback.seen[i] \in {"pending", "expired"}

\* ---------------------------------------------------------------------------
\* C28  Auth-callback polling is bounded: while the session responses never
\* yield an auth token (pending, or an unexpected status, every time),
\* handleCallback fetches the session endpoint at most maxRetries + 1 = 6
\* times.
C28_PollingBounded ==
  NeverYieldedToken => callback.polls <= maxRetries + 1


\* ---------------------------------------------------------------------------
\* C29  Attachment ids within one delivered message are pairwise distinct:
\* in every message passed to onUserMessage or onComplete, two different
\* attachments have different ids.
C29_AttachmentIdsDistinct ==
  \A i \in DOMAIN log :
    log[i].cb \in {"onUserMessage", "onComplete"} =>
      LET atts == log[i].msg.attachments
      IN \A j, k \in DOMAIN atts : j # k => atts[j].id # atts[k].id


(* ----------------------------------------------------------------------- *)
(* useAuth: the token in localStorage, the auth state and fetchUserInfo    *)
(* ----------------------------------------------------------------------- *)

\* the fetchUserInfo calls of one mounted hook that the model follows
MaxRequests == 3

\* localStorage entries miniapp_auth_token, miniapp_user_id, miniapp_org_id
Stored(token, userId, orgId) == [token |-> token, userId |-> userId, orgId |-> orgId]

NoStored == Stored(NULL, NULL, NULL)

\* what the auth callback page stores after a sign-in
StoredA == Stored("miniapp_tokA", "user-a", "org-a")

StoredB == Stored("miniapp_tokB", "user-b", "org-b")

\* the token key is written and the user id key is not written yet
StoredTokenOnly == Stored("miniapp_tokB", NULL, NULL)

\* data.user of an ok response: its id, email, name and avatar
USER == "user-a <a@x>"

\* no user-info response has been handled since the last other step
NoLast ==
  [kind |-> "none",
   before |-> [storage |-> NoStored, authToken |-> NULL, userId |-> NULL,
               organizationId |-> NULL, user |-> NULL]]

\* authenticated: !!authToken
authenticated(a) == a.authToken \notin {NULL, ""}

\* the stored values and the auth state that the hook returns
AuthSnapshot(a) ==
  [storage |-> a.storage, authToken |-> a.authToken, userId |-> a.userId,
   organizationId |-> a.organizationId, user |-> a.user]

\* the state setters are called and the stored values are kept
clearAuthStateOnly(a) ==
  [a EXCEPT !.authToken = NULL, !.userId = NULL, !.organizationId = NULL,
            !.user = NULL]

\* clearAuth: the three stored values are removed and the state is nulled
clearAuth(a) ==
  [a EXCEPT !.storage = NoStored, !.authToken = NULL, !.userId = NULL,
            !.organizationId = NULL, !.user = NULL]

\* fetchUserInfo(token) is called: a request is in flight
fetchUserInfo(a, token) ==
  [a EXCEPT !.inflight = @ \cup {[id |-> a.started + 1, token |-> token]},
            !.started = @ + 1]

\* the hook after its first render: the lazy initial state has the stored
\* values (client render) or nulls (hydration of a server render); effects
\* have not run yet.  seen is the authToken and ready of the last run of the
\* fetch effect, last is history
InitAuth ==
  /\ pc = "idle"
  /\ resp = NoResp
  /\ stream = <<>>
  /\ pos = 0
  /\ pending = <<>>
  /\ buffer = <<>>
  /\ log = <<>>
  /\ error = U
  /\ cause = "none"
  /\ disp = <<>>
  /\ nrec = 0
  /\ multi = FALSE
  /\ page = PageWith(<<>>)
  /\ sent = NoSend
  /\ proxy = UNUSED
  /\ callback = UNUSED
  /\ \E st \in {NoStored, StoredA} : \E lazy \in {NoStored, st} :
       auth = [at |-> "mounting", storage |-> st, ready |-> FALSE,
               authToken |-> lazy.token, userId |-> lazy.userId,
               organizationId |-> lazy.orgId, user |-> NULL,
               seen |-> [authToken |-> lazy.token, ready |-> FALSE],
               inflight |-> {}, started |-> 0, last |-> NoLast]

\* the mount effect: the stored values are read into the state, ready is set
MountSync ==
  /\ auth.at = "mounting"
  /\ auth' = [(IF auth.storage.token # NULL
               THEN [auth EXCEPT !.authToken = auth.storage.token,
                                 !.userId = auth.storage.userId,
                                 !.organizationId = auth.storage.orgId]
               ELSE auth)
              EXCEPT !.ready = TRUE, !.at = "mounted", !.last = NoLast]
  /\ UNCHANGED <<chatVars, proxy, callback>>

\* the effect on [authToken, ready, fetchUserInfo] runs after a render in
\* which authToken or ready changed
FetchEffect ==
  /\ auth.at = "mounted"
  /\ auth.seen # [authToken |-> auth.authToken, ready |-> auth.ready]
  /\ auth.started < MaxRequests
  /\ LET a == [auth EXCEPT !.seen = [authToken |-> auth.authToken, ready |-> auth.ready],
                           !.last = NoLast]
     IN auth' = IF a.authToken # NULL /\ a.ready
                THEN fetchUserInfo(a, a.authToken)
                ELSE a
  /\ UNCHANGED <<chatVars, proxy, callback>>

\* a user-info request is answered and handled; kind names the branch
Answered(r, kind, a) ==
  [a EXCEPT !.inflight = auth.inflight \ {r},
            !.last = [kind |-> kind, before |-> AuthSnapshot(auth)]]

\* response.ok: setUser
UserInfoOk ==
  /\ auth.at = "mounted"
  /\ \E r \in auth.inflight :
       auth' = Answered(r, "ok", [auth EXCEPT !.user = USER])
  /\ UNCHANGED <<chatVars, proxy, callback>>

\* response.status === 401: clearAuth()
UserInfoUnauthorized ==
  /\ auth.at = "mounted"
  /\ \E r \in auth.inflight :
       auth' = Answered(r, "401", clearAuth(auth))
  /\ UNCHANGED <<chatVars, proxy, callback>>

\* another status: a warning is logged
UserInfoUnexpectedStatus ==
  /\ auth.at = "mounted"
  /\ \E r \in auth.inflight :
       auth' = Answered(r, "other", auth)
  /\ UNCHANGED <<chatVars, proxy, callback>>

\* fetch rejects, or the body of an ok response cannot be read: the catch
\* block logs a warning
UserInfoNetworkError ==
  /\ auth.at = "mounted"
  /\ \E r \in auth.inflight :
       auth' = Answered(r, "network", auth)
  /\ UNCHANGED <<chatVars, proxy, callback>>

\* the values that handleStorageChange and handleAuthChanged read are taken
\* into the state and the user info is fetched
TakeStored(a) ==
  fetchUserInfo([a EXCEPT !.authToken = a.storage.token,
                          !.userId = a.storage.userId,
                          !.organizationId = a.storage.orgId],
                a.storage.token)

\* the auth callback stores a token in this window and dispatches
\* miniapp_auth_changed: handleAuthChanged
handleAuthChanged ==
  /\ auth.at = "mounted"
  /\ auth.started < MaxRequests
  /\ \E st \in {StoredA, StoredB} :
       LET a == [auth EXCEPT !.storage = st, !.last = NoLast]
       IN auth' = IF a.storage.token # NULL /\ a.storage.userId # NULL
                  THEN TakeStored(a)
                  ELSE a
  /\ UNCHANGED <<chatVars, proxy, callback>>

\* another tab writes or removes the token key: handleStorageChange
handleStorageChange ==
  /\ auth.at = "mounted"
  /\ auth.started < MaxRequests
  /\ \E st \in {StoredB, StoredTokenOnly, NoStored} :
       LET a == [auth EXCEPT !.storage = st, !.last = NoLast]
       IN auth' = IF a.storage.token # NULL /\ a.storage.userId # NULL
                  THEN TakeStored(a)
                  ELSE clearAuth(a)
  /\ UNCHANGED <<chatVars, proxy, callback>>

\* login: the session is created and the window goes to the login URL
login ==
  /\ auth.at = "mounted"
  /\ auth' = [auth EXCEPT !.at = "left", !.inflight = {}, !.last = NoLast]
  /\ UNCHANGED <<chatVars, proxy, callback>>

\* logout: clearAuth() and the window goes to "/"
logout ==
  /\ auth.at = "mounted"
  /\ auth' = [clearAuth(auth) EXCEPT !.at = "left", !.inflight = {}, !.last = NoLast]
  /\ UNCHANGED <<chatVars, proxy, callback>>

NextAuth ==
  \/ MountSync
  \/ FetchEffect
  \/ UserInfoOk
  \/ UserInfoUnauthorized
  \/ UserInfoUnexpectedStatus
  \/ UserInfoNetworkError
  \/ handleAuthChanged
  \/ handleStorageChange
  \/ login
  \/ logout

SpecAuth == InitAuth /\ [][NextAuth]_vars

\* ---------------------------------------------------------------------------
\* C30  Token invalidation in useAuth: right after a user-info request was
\* answered 401, the three stored values are removed and authToken, userId,
\* organizationId and user are null, so authenticated is false; right after
\* another non-OK status or a network error, the stored values and the auth
\* state are what they were before; and in every state authenticated is true
\* exactly when authToken is not null.
C30_TokenInvalidation ==
  /\ auth.last.kind = "401" =>
       /\ auth.storage = NoStored
       /\ auth.authToken = NULL
       /\ auth.userId = NULL
       /\ auth.organizationId = NULL
       /\ auth.user = NULL
       /\ ~authenticated(auth)
  /\ auth.last.kind \in {"other", "network"} =>
       AuthSnapshot(auth) = auth.last.before
  /\ authenticated(auth) <=> auth.authToken # NULL

\* a 401 was answered while a token was stored and the user was known
C30_Witness ==
  /\ auth.last.kind = "401"
  /\ auth.last.before.storage.token # NULL
  /\ auth.last.before.authToken # NULL
  /\ auth.last.before.user # NULL

====
